---- MODULE Spec2Model ----
(***************************************************************************)
(* Multi-agent conversational assistant: the turn pipeline of              *)
(* api/routes/message_routes.py, the master router of                      *)
(* agents/orchestrator.py, the session store of core/session_manager.py    *)
(* and the grocery confirmation state machine of agents/grocery_agent.py.  *)
(*                                                                         *)
(* A Python str is modelled as the sequence of its characters, so that     *)
(* `word in text`, lower(), strip() and split() are computed and not       *)
(* assumed; what they give on each turn text is tabulated once.  Prices    *)
(* are integers in cents.                                                  *)
(***************************************************************************)
EXTENDS Integers, Sequences, FiniteSets, TLC

(***************************************************************************)
(* Bounds of the model.                                                    *)
(***************************************************************************)
\* turns one session may take between two clears
MaxTurns == 4

\* the turns of a session that places an order after a failed item request
MaxOrderTurns == 5

(***************************************************************************)
(* Strings.                                                                *)
(***************************************************************************)
\* the turn texts the model's users send
Texts ==
    {"yes", "confirm", "cancel", "no, don't go ahead",
     "I want tomatoes and eggs", "add milk"}

\* the turn texts of a user working on the mailbox
EmailTexts ==
    {"check my emails", "1", "select 2", "0", "3", "draft reply", "analyze",
     "yes", "no"}

\* the turn texts of a user searching and asking about the results
NewsTexts ==
    {"latest news", "tell me about the second one",
     "tell me more about the third", "more about number 2"}

AllTexts == Texts \cup EmailTexts \cup NewsTexts

Chars(s) ==
    CASE s = "yes" -> <<"y", "e", "s">>
      [] s = "confirm" -> <<"c", "o", "n", "f", "i", "r", "m">>
      [] s = "no" -> <<"n", "o">>
      [] s = "cancel" -> <<"c", "a", "n", "c", "e", "l">>
      [] s = "no, don't go ahead" -> <<"n", "o", ",", " ", "d", "o", "n", "'", "t", " ", "g", "o", " ", "a", "h", "e", "a", "d">>
      [] s = "I want tomatoes and eggs" -> <<"I", " ", "w", "a", "n", "t", " ", "t", "o", "m", "a", "t", "o", "e", "s", " ", "a", "n", "d", " ", "e", "g", "g", "s">>
      [] s = "add milk" -> <<"a", "d", "d", " ", "m", "i", "l", "k">>
      [] s = "Yes " -> <<"Y", "e", "s", " ">>
      [] s = "yeah" -> <<"y", "e", "a", "h">>
      [] s = "sure" -> <<"s", "u", "r", "e">>
      [] s = "ok" -> <<"o", "k">>
      [] s = "okay" -> <<"o", "k", "a", "y">>
      [] s = "proceed" -> <<"p", "r", "o", "c", "e", "e", "d">>
      [] s = "go ahead" -> <<"g", "o", " ", "a", "h", "e", "a", "d">>
      [] s = "not now" -> <<"n", "o", "t", " ", "n", "o", "w">>
      [] s = "stop" -> <<"s", "t", "o", "p">>
      [] s = "nevermind" -> <<"n", "e", "v", "e", "r", "m", "i", "n", "d">>
      [] s = "nope" -> <<"n", "o", "p", "e">>
      [] s = "clear" -> <<"c", "l", "e", "a", "r">>
      [] s = "reset" -> <<"r", "e", "s", "e", "t">>
      [] s = "i" -> <<"i">>
      [] s = "want" -> <<"w", "a", "n", "t">>
      [] s = "to" -> <<"t", "o">>
      [] s = "buy" -> <<"b", "u", "y">>
      [] s = "need" -> <<"n", "e", "e", "d">>
      [] s = "get" -> <<"g", "e", "t">>
      [] s = "some" -> <<"s", "o", "m", "e">>
      [] s = "a" -> <<"a">>
      [] s = "an" -> <<"a", "n">>
      [] s = "the" -> <<"t", "h", "e">>
      [] s = "please" -> <<"p", "l", "e", "a", "s", "e">>
      [] s = "can" -> <<"c", "a", "n">>
      [] s = "could" -> <<"c", "o", "u", "l", "d">>
      [] s = "would" -> <<"w", "o", "u", "l", "d">>
      [] s = "like" -> <<"l", "i", "k", "e">>
      [] s = "love" -> <<"l", "o", "v", "e">>
      [] s = "shopping" -> <<"s", "h", "o", "p", "p", "i", "n", "g">>
      [] s = "for" -> <<"f", "o", "r">>
      [] s = "me" -> <<"m", "e">>
      [] s = "my" -> <<"m", "y">>
      [] s = "and" -> <<"a", "n", "d">>
      [] s = "or" -> <<"o", "r">>
      [] s = "also" -> <<"a", "l", "s", "o">>
      [] s = "plus" -> <<"p", "l", "u", "s">>
      [] s = "i want to buy" -> <<"i", " ", "w", "a", "n", "t", " ", "t", "o", " ", "b", "u", "y">>
      [] s = "i need" -> <<"i", " ", "n", "e", "e", "d">>
      [] s = "please get me" -> <<"p", "l", "e", "a", "s", "e", " ", "g", "e", "t", " ", "m", "e">>
      [] s = "can i have" -> <<"c", "a", "n", " ", "i", " ", "h", "a", "v", "e">>
      [] s = "," -> <<",">>
      [] s = " and " -> <<" ", "a", "n", "d", " ">>
      [] s = "&" -> <<"&">>
      [] s = "news" -> <<"n", "e", "w", "s">>
      [] s = "today" -> <<"t", "o", "d", "a", "y">>
      [] s = "latest" -> <<"l", "a", "t", "e", "s", "t">>
      [] s = "breaking" -> <<"b", "r", "e", "a", "k", "i", "n", "g">>
      [] s = "research" -> <<"r", "e", "s", "e", "a", "r", "c", "h">>
      [] s = "paper" -> <<"p", "a", "p", "e", "r">>
      [] s = "study" -> <<"s", "t", "u", "d", "y">>
      [] s = "scholar" -> <<"s", "c", "h", "o", "l", "a", "r">>
      [] s = "place" -> <<"p", "l", "a", "c", "e">>
      [] s = "restaurant" -> <<"r", "e", "s", "t", "a", "u", "r", "a", "n", "t">>
      [] s = "hotel" -> <<"h", "o", "t", "e", "l">>
      [] s = "near" -> <<"n", "e", "a", "r">>
      [] s = "price" -> <<"p", "r", "i", "c", "e">>
      [] s = "shop" -> <<"s", "h", "o", "p">>
      [] s = "product" -> <<"p", "r", "o", "d", "u", "c", "t">>
      [] s = "image" -> <<"i", "m", "a", "g", "e">>
      [] s = "video" -> <<"v", "i", "d", "e", "o">>
      [] s = "photo" -> <<"p", "h", "o", "t", "o">>
      [] s = "tomatoes" -> <<"t", "o", "m", "a", "t", "o", "e", "s">>
      [] s = "eggs" -> <<"e", "g", "g", "s">>
      [] s = "milk" -> <<"m", "i", "l", "k">>
      [] s = "tell me more" -> <<"t", "e", "l", "l", " ", "m", "e", " ", "m", "o", "r", "e">>
      [] s = "more about" -> <<"m", "o", "r", "e", " ", "a", "b", "o", "u", "t">>
      [] s = "what about" -> <<"w", "h", "a", "t", " ", "a", "b", "o", "u", "t">>
      [] s = "about the" -> <<"a", "b", "o", "u", "t", " ", "t", "h", "e">>
      [] s = "first one" -> <<"f", "i", "r", "s", "t", " ", "o", "n", "e">>
      [] s = "second one" -> <<"s", "e", "c", "o", "n", "d", " ", "o", "n", "e">>
      [] s = "third" -> <<"t", "h", "i", "r", "d">>
      [] s = "number" -> <<"n", "u", "m", "b", "e", "r">>
      [] s = "article" -> <<"a", "r", "t", "i", "c", "l", "e">>
      [] s = "that place" -> <<"t", "h", "a", "t", " ", "p", "l", "a", "c", "e">>
      [] s = "that product" -> <<"t", "h", "a", "t", " ", "p", "r", "o", "d", "u", "c", "t">>
      [] s = "this video" -> <<"t", "h", "i", "s", " ", "v", "i", "d", "e", "o">>
      [] s = "the paper" -> <<"t", "h", "e", " ", "p", "a", "p", "e", "r">>
      [] s = "link" -> <<"l", "i", "n", "k">>
      [] s = "detail" -> <<"d", "e", "t", "a", "i", "l">>
      [] s = "explain" -> <<"e", "x", "p", "l", "a", "i", "n">>
      [] s = "summarize" -> <<"s", "u", "m", "m", "a", "r", "i", "z", "e">>
      [] s = "first" -> <<"f", "i", "r", "s", "t">>
      [] s = "1" -> <<"1">>
      [] s = "one" -> <<"o", "n", "e">>
      [] s = "second" -> <<"s", "e", "c", "o", "n", "d">>
      [] s = "2" -> <<"2">>
      [] s = "two" -> <<"t", "w", "o">>
      [] s = "3" -> <<"3">>
      [] s = "three" -> <<"t", "h", "r", "e", "e">>
      [] s = "fourth" -> <<"f", "o", "u", "r", "t", "h">>
      [] s = "4" -> <<"4">>
      [] s = "four" -> <<"f", "o", "u", "r">>
      [] s = "fifth" -> <<"f", "i", "f", "t", "h">>
      [] s = "5" -> <<"5">>
      [] s = "five" -> <<"f", "i", "v", "e">>
      [] s = "news_agent" -> <<"n", "e", "w", "s", "_", "a", "g", "e", "n", "t">>
      [] s = "weather_agent" -> <<"w", "e", "a", "t", "h", "e", "r", "_", "a", "g", "e", "n", "t">>
      [] s = "email_agent" -> <<"e", "m", "a", "i", "l", "_", "a", "g", "e", "n", "t">>
      [] s = "grocery_agent" -> <<"g", "r", "o", "c", "e", "r", "y", "_", "a", "g", "e", "n", "t">>
      [] s = "Grocery_Agent " -> <<"G", "r", "o", "c", "e", "r", "y", "_", "A", "g", "e", "n", "t", " ">>
      [] s = "I am not sure" -> <<"I", " ", "a", "m", " ", "n", "o", "t", " ", "s", "u", "r", "e">>
      [] s = "email_agent or grocery_agent" -> <<"e", "m", "a", "i", "l", "_", "a", "g", "e", "n", "t", " ", "o", "r", " ", "g", "r", "o", "c", "e", "r", "y", "_", "a", "g", "e", "n", "t">>
      [] s = "check my emails" -> <<"c", "h", "e", "c", "k", " ", "m", "y", " ", "e", "m", "a", "i", "l", "s">>
      [] s = "select 2" -> <<"s", "e", "l", "e", "c", "t", " ", "2">>
      [] s = "0" -> <<"0">>
      [] s = "draft reply" -> <<"d", "r", "a", "f", "t", " ", "r", "e", "p", "l", "y">>
      [] s = "analyze" -> <<"a", "n", "a", "l", "y", "z", "e">>
      [] s = "latest news" -> <<"l", "a", "t", "e", "s", "t", " ", "n", "e", "w", "s">>
      [] s = "tell me about the second one" -> <<"t", "e", "l", "l", " ", "m", "e", " ", "a", "b", "o", "u", "t", " ", "t", "h", "e", " ", "s", "e", "c", "o", "n", "d", " ", "o", "n", "e">>
      [] s = "tell me more about the third" -> <<"t", "e", "l", "l", " ", "m", "e", " ", "m", "o", "r", "e", " ", "a", "b", "o", "u", "t", " ", "t", "h", "e", " ", "t", "h", "i", "r", "d">>
      [] s = "more about number 2" -> <<"m", "o", "r", "e", " ", "a", "b", "o", "u", "t", " ", "n", "u", "m", "b", "e", "r", " ", "2">>
      [] s = "y" -> <<"y">>
      [] s = "send" -> <<"s", "e", "n", "d">>
      [] s = "send it" -> <<"s", "e", "n", "d", " ", "i", "t">>
      [] s = "n" -> <<"n">>
      [] s = "skip" -> <<"s", "k", "i", "p">>
      [] s = "check" -> <<"c", "h", "e", "c", "k">>
      [] s = "show" -> <<"s", "h", "o", "w">>
      [] s = "list" -> <<"l", "i", "s", "t">>
      [] s = "email" -> <<"e", "m", "a", "i", "l">>
      [] s = "inbox" -> <<"i", "n", "b", "o", "x">>
      [] s = "unread" -> <<"u", "n", "r", "e", "a", "d">>
      [] s = "reply" -> <<"r", "e", "p", "l", "y">>
      [] s = "draft" -> <<"d", "r", "a", "f", "t">>
      [] s = "schedule" -> <<"s", "c", "h", "e", "d", "u", "l", "e">>
      [] s = "respond" -> <<"r", "e", "s", "p", "o", "n", "d">>
      [] s = "full" -> <<"f", "u", "l", "l">>
      [] s = "full content" -> <<"f", "u", "l", "l", " ", "c", "o", "n", "t", "e", "n", "t">>
      [] s = "show all" -> <<"s", "h", "o", "w", " ", "a", "l", "l">>
      [] s = "read all" -> <<"r", "e", "a", "d", " ", "a", "l", "l">>

UpperCase == <<"A","B","C","D","E","F","G","H","I","J","K","L","M",
               "N","O","P","Q","R","S","T","U","V","W","X","Y","Z">>
LowerCase == <<"a","b","c","d","e","f","g","h","i","j","k","l","m",
               "n","o","p","q","r","s","t","u","v","w","x","y","z">>
Digits == {"0","1","2","3","4","5","6","7","8","9"}

Range(f) == {f[i] : i \in DOMAIN f}

\* str.lower() on one character
LowerChar(c) ==
    IF \E i \in 1..26 : UpperCase[i] = c
    THEN LowerCase[CHOOSE i \in 1..26 : UpperCase[i] = c]
    ELSE c

\* str.lower()
Lower(s) == [i \in 1..Len(s) |-> LowerChar(s[i])]

IsSpace(c) == c \in {" ", "\t", "\n"}

\* \w of the re module
IsWordChar(c) == c \in Range(LowerCase) \cup Range(UpperCase) \cup Digits \cup {"_"}

RECURSIVE LStrip(_)
LStrip(s) == IF s # <<>> /\ IsSpace(Head(s)) THEN LStrip(Tail(s)) ELSE s

RECURSIVE RStrip(_)
RStrip(s) ==
    IF s # <<>> /\ IsSpace(s[Len(s)]) THEN RStrip(SubSeq(s, 1, Len(s) - 1)) ELSE s

\* str.strip()
Strip(s) == RStrip(LStrip(s))

\* s[i:].startswith(w), i counted from 1
MatchAt(s, i, w) ==
    /\ i + Len(w) - 1 <= Len(s)
    /\ \A k \in 1..Len(w) : s[i + k - 1] = w[k]

\* `w in s` on two str values
Contains(s, w) == \E i \in 1..(Len(s) + 1) : MatchAt(s, i, w)

\* user_text.lower().strip() of a turn text
LowerStripped(t) == Strip(Lower(Chars(t)))

\* last_message.lower() of a turn text
Lowered(t) == Lower(Chars(t))

\* re.sub(r'\bphrase\b', '', s): scanning from position i
RECURSIVE ReSubWord(_, _, _)
ReSubWord(s, p, i) ==
    IF i > Len(s) THEN <<>>
    ELSE IF /\ MatchAt(s, i, p)
            /\ (i = 1 \/ ~IsWordChar(s[i - 1]))
            /\ (i + Len(p) > Len(s) \/ ~IsWordChar(s[i + Len(p)]))
         THEN ReSubWord(s, p, i + Len(p))
         ELSE <<s[i]>> \o ReSubWord(s, p, i + 1)

\* str.split(sep): the pieces of s from position i on, cur the piece being read
RECURSIVE SplitFrom(_, _, _, _)
SplitFrom(s, sep, i, cur) ==
    IF i > Len(s) THEN <<cur>>
    ELSE IF MatchAt(s, i, sep)
         THEN <<cur>> \o SplitFrom(s, sep, i + Len(sep), <<>>)
         ELSE SplitFrom(s, sep, i + 1, Append(cur, s[i]))

Split(s, sep) == SplitFrom(s, sep, 1, <<>>)

\* str.split() with no argument: the whitespace-separated words
RECURSIVE WordsFrom(_, _, _)
WordsFrom(s, i, cur) ==
    IF i > Len(s) THEN (IF cur = <<>> THEN <<>> ELSE <<cur>>)
    ELSE IF IsSpace(s[i])
         THEN (IF cur = <<>> THEN <<>> ELSE <<cur>>) \o WordsFrom(s, i + 1, <<>>)
         ELSE WordsFrom(s, i + 1, Append(cur, s[i]))

SplitWords(s) == WordsFrom(s, 1, <<>>)

\* ' '.join(words)
RECURSIVE Join(_)
Join(ws) ==
    IF ws = <<>> THEN <<>>
    ELSE IF Len(ws) = 1 THEN ws[1]
    ELSE ws[1] \o <<" ">> \o Join(Tail(ws))

(***************************************************************************)
(* agents/grocery_agent.py                                                 *)
(***************************************************************************)
\* an item the extraction model returned that is not a str (a number, null)
NonStringItem == <<"<nonstr>">>

Offer(n, p, st) == [name |-> n, price |-> p, store |-> st]

\* GroceryAPIs._generic_fallback: query.title() raises on a non-str query
GenericFallbackRaises(query) == query = NonStringItem

_generic_fallback(query) ==
    <<Offer(<<"Fresh", query>>, 399, "Local Grocery"),
      Offer(<<"Organic", query>>, 549, "Organic Market"),
      Offer(<<"Store Brand", query>>, 299, "Supermarket")>>

\* GroceryAPIs.search_all: the results, or "raise"
search_all(query, found) ==
    IF found # <<>> THEN [raised |-> FALSE, results |-> found]
    ELSE IF GenericFallbackRaises(query) THEN [raised |-> TRUE, results |-> <<>>]
    ELSE [raised |-> FALSE, results |-> _generic_fallback(query)]

ignore_words ==
    {"i", "want", "to", "buy", "need", "get", "some", "a", "an", "the",
     "please", "can", "could", "would", "like", "love", "shopping", "for",
     "me", "my", "and", "or", "also", "plus"}

IsIgnoreWord(w) == \E g \in ignore_words : w = Chars(g)

\* one pass of the separator loop: every item split on sep, pieces stripped
RECURSIVE SplitAll(_, _)
SplitAll(items, sep) ==
    IF items = <<>> THEN <<>>
    ELSE LET pieces == Split(Head(items), sep)
         IN  [i \in 1..Len(pieces) |-> Strip(pieces[i])] \o SplitAll(Tail(items), sep)

\* the cleaning loop of _extract_items_simple
RECURSIVE CleanItems(_)
CleanItems(items) ==
    IF items = <<>> THEN <<>>
    ELSE LET all   == SplitWords(Head(items))
             words == SelectSeq(all, LAMBDA w : ~IsIgnoreWord(w) \/ Len(all) = 1)
             cleaned_item == Join(words)
         IN  (IF words # <<>> /\ Len(cleaned_item) > 2 THEN <<cleaned_item>> ELSE <<>>)
             \o CleanItems(Tail(items))

_extract_items_simple(text) ==
    LET t0 == Lower(text)
        t1 == ReSubWord(t0, Chars("i want to buy"), 1)
        t2 == ReSubWord(t1, Chars("i need"), 1)
        t3 == ReSubWord(t2, Chars("please get me"), 1)
        t4 == ReSubWord(t3, Chars("can i have"), 1)
        i0 == <<Strip(t4)>>
        i1 == SplitAll(i0, Chars(","))
        i2 == SplitAll(i1, Chars(" and "))
        i3 == SplitAll(i2, Chars("&"))
        i4 == SplitAll(i3, Chars("plus"))
        cleaned_items == CleanItems(i4)
    IN  IF cleaned_items # <<>> THEN cleaned_items ELSE <<Strip(text)>>

yes_words == {"yes", "yeah", "sure", "ok", "okay", "proceed", "go ahead"}
no_words == {"no", "cancel", "not now", "stop", "nevermind", "nope"}

\* _extract_items_simple on each turn text
SimpleItems == [t \in AllTexts |-> _extract_items_simple(Chars(t))]

GroceryWords == yes_words \cup no_words \cup {"confirm", "clear", "reset"}

\* the words of _understand_node's lists that each turn text contains
InLowerStripped ==
    [t \in AllTexts |-> {w \in GroceryWords : Contains(LowerStripped(t), Chars(w))}]

\* any(word in user_text_lower for word in words)
AnyInLowerStripped(words, t) == (words \cap InLowerStripped[t]) # {}

\* _understand_node's early returns with the recognised action dropped
UnderstoodAsSearch(state, action) ==
    [state EXCEPT !.user_action = "search", !.items_to_search = <<>>]

\* the early returns of _understand_node
Understood(state, action) ==
    [state EXCEPT !.user_action = action, !.items_to_search = <<>>]

\* _understand_node: the states it can return (one per answer of the
\* extraction model, where it is asked)
_understand_node(state, env) ==
    LET user_text == state.user_text
        stage == state.confirmation_stage
    IN  IF stage = "awaiting_yes" /\ AnyInLowerStripped(yes_words, user_text)
        THEN {Understood(state, "confirm_yes")}
        ELSE IF stage = "awaiting_yes" /\ AnyInLowerStripped(no_words, user_text)
        THEN {Understood(state, "cancel")}
        ELSE IF stage = "awaiting_final"
                /\ AnyInLowerStripped(yes_words \cup {"confirm"}, user_text)
        THEN {Understood(state, "final_confirm")}
        ELSE IF stage = "awaiting_final" /\ AnyInLowerStripped(no_words, user_text)
        THEN {Understood(state, "cancel")}
        ELSE IF state.awaiting_confirmation
                /\ AnyInLowerStripped({"confirm"} \cup yes_words, user_text)
        THEN {Understood(state, "confirm")}
        ELSE IF AnyInLowerStripped(no_words \cup {"clear", "reset"}, user_text)
        THEN {Understood(state, "cancel")}
        ELSE {[state EXCEPT
                 !.items_to_search =
                     IF extracted # <<>> THEN extracted
                     ELSE SimpleItems[user_text],
                 !.user_action = "search"] : extracted \in env.item_lists}

\* a results_by_item that keeps one entry for every search
DictAppend(d, k, v) == Append(d, <<k, v>>)

\* results_by_item[item] = results on a dict kept as a sequence of pairs
DictPut(d, k, v) ==
    IF \E i \in 1..Len(d) : d[i][1] = k
    THEN [i \in 1..Len(d) |-> IF d[i][1] = k THEN <<k, v>> ELSE d[i]]
    ELSE Append(d, <<k, v>>)

\* the loop of _search_node from item i on: the (all_results, results_by_item)
\* pairs it can end with, one per answer of the provider
RECURSIVE SearchLoop(_, _, _, _, _)
SearchLoop(items, i, all_results, results_by_item, env) ==
    IF i > Len(items) THEN {<<all_results, results_by_item>>}
    ELSE UNION { LET r == search_all(items[i], found)
                 IN  IF r.raised
                     THEN SearchLoop(items, i + 1, all_results, results_by_item, env)
                     ELSE SearchLoop(items, i + 1, all_results \o r.results,
                                     DictPut(results_by_item, items[i], r.results),
                                     env)
                 : found \in env.provider_results }

_search_node(state, env) ==
    IF state.user_action \in {"cancel", "confirm", "confirm_yes", "final_confirm"}
    THEN {state}
    ELSE {[state EXCEPT !.search_results = r[1], !.search_results_by_item = r[2]]
            : r \in SearchLoop(state.items_to_search, 1, <<>>, <<>>, env)}

NoPrice == -1

\* a minimum that takes the last offer of the least price
LastByPrice(rs) ==
    rs[CHOOSE i \in 1..Len(rs) :
          \A j \in 1..Len(rs) :
              rs[i].price < rs[j].price \/ (rs[i].price = rs[j].price /\ i >= j)]

\* min(valid_results, key=price): the first offer of the least price
MinByPrice(rs) ==
    rs[CHOOSE i \in 1..Len(rs) :
          \A j \in 1..Len(rs) :
              rs[i].price < rs[j].price \/ (rs[i].price = rs[j].price /\ i <= j)]

\* the selection loop of _reason_node over results_by_item
RECURSIVE SelectItems(_)
SelectItems(by_item) ==
    IF by_item = <<>> THEN <<>>
    ELSE LET results == Head(by_item)[2]
             valid_results == SelectSeq(results, LAMBDA r : r.price # NoPrice)
         IN  (IF results = <<>> THEN <<>>
              ELSE IF valid_results # <<>> THEN <<MinByPrice(valid_results)>>
              ELSE <<results[1]>>)
             \o SelectItems(Tail(by_item))

\* _reason_node without the cart = [] of its final_confirm branch
ReasonKeepingCart(state) ==
    IF state.user_action = "final_confirm"
    THEN [state EXCEPT !.order_confirmed = TRUE,
                       !.confirmation_stage = "completed",
                       !.awaiting_confirmation = FALSE]
    ELSE IF state.user_action = "cancel"
    THEN [state EXCEPT !.cart = <<>>,
                       !.confirmation_stage = "cancelled",
                       !.awaiting_confirmation = FALSE]
    ELSE IF state.user_action = "confirm" /\ state.awaiting_confirmation
    THEN [state EXCEPT !.confirmation_stage = "awaiting_yes"]
    ELSE IF state.user_action = "confirm_yes"
    THEN [state EXCEPT !.confirmation_stage = "awaiting_final"]
    ELSE IF state.search_results_by_item = <<>>
    THEN [state EXCEPT !.cart = <<>>]
    ELSE [state EXCEPT !.cart = SelectItems(state.search_results_by_item),
                       !.awaiting_confirmation = TRUE,
                       !.confirmation_stage = "initial"]

_reason_node(state) ==
    IF state.user_action = "final_confirm"
    THEN [state EXCEPT !.order_confirmed = TRUE,
                       !.confirmation_stage = "completed",
                       !.awaiting_confirmation = FALSE,
                       !.cart = <<>>]
    ELSE IF state.user_action = "cancel"
    THEN [state EXCEPT !.cart = <<>>,
                       !.confirmation_stage = "cancelled",
                       !.awaiting_confirmation = FALSE]
    ELSE IF state.user_action = "confirm" /\ state.awaiting_confirmation
    THEN [state EXCEPT !.confirmation_stage = "awaiting_yes"]
    ELSE IF state.user_action = "confirm_yes"
    THEN [state EXCEPT !.confirmation_stage = "awaiting_final"]
    ELSE IF state.search_results_by_item = <<>>
    THEN [state EXCEPT !.cart = <<>>]
    ELSE [state EXCEPT !.cart = SelectItems(state.search_results_by_item),
                       !.awaiting_confirmation = TRUE,
                       !.confirmation_stage = "initial"]

RECURSIVE SumPrices(_)
SumPrices(cart) == IF cart = <<>> THEN 0 ELSE Head(cart).price + SumPrices(Tail(cart))

\* a reply text: the template used and what the template is filled with
\* (cart lines and their total, or search results and their count)
Msg(kind, items, total, results) ==
    [kind |-> kind, items |-> items, total |-> total, results |-> results]

Reply(kind, cart) ==
    Msg(kind, [i \in 1..Len(cart) |-> <<cart[i].name, cart[i].price>>],
        SumPrices(cart), <<>>)

_respond_node(state) ==
    LET stage == state.confirmation_stage
        response_text ==
            IF state.order_confirmed /\ stage = "completed"
            THEN Reply("order_placed", <<>>)
            ELSE IF stage = "cancelled" THEN Reply("cart_cleared", <<>>)
            ELSE IF stage = "awaiting_final"
            THEN (IF state.cart = <<>> THEN Reply("cart_empty", <<>>)
                  ELSE Reply("are_you_sure", <<>>))
            ELSE IF stage = "awaiting_yes"
            THEN (IF state.cart = <<>> THEN Reply("cart_empty", <<>>)
                  ELSE Reply("confirm_order", state.cart))
            ELSE IF state.cart = <<>> THEN Reply("items_not_found", <<>>)
            ELSE Reply("found_items", state.cart)
    IN  [state EXCEPT !.agent_response = response_text,
                      !.conversation_history = Append(@, "Agent")]

\* dict.get(key, default)
Get(d, key, default) == IF key \in DOMAIN d THEN d[key] ELSE default

EmptyDict == [k \in {} |-> TRUE]

NoReply == Reply("", <<>>)

\* GroceryShoppingAgent.process: the (response, context) pairs it can return
GroceryProcess(user_input, conversation_state, env) ==
    LET initial_state ==
            [user_text |-> user_input,
             agent_response |-> NoReply,
             cart |-> Get(conversation_state, "cart", <<>>),
             search_results |-> <<>>,
             awaiting_confirmation |->
                 Get(conversation_state, "awaiting_confirmation", FALSE),
             conversation_history |-> Get(conversation_state, "history", <<>>),
             items_to_search |-> <<>>,
             user_action |-> "search",
             order_confirmed |-> FALSE,
             confirmation_stage |->
                 Get(conversation_state, "confirmation_stage", "initial"),
             search_results_by_item |-> <<>>]
        results ==
            {_respond_node(_reason_node(s2)) :
                s2 \in UNION {_search_node(s1, env) :
                                 s1 \in _understand_node(initial_state, env)}}
    IN  {<<result.agent_response,
           [cart |-> result.cart,
            confirmation_stage |-> result.confirmation_stage,
            awaiting_confirmation |-> result.awaiting_confirmation,
            history |-> result.conversation_history]>> : result \in results}

(***************************************************************************)
(* agents/news_agent.py                                                    *)
(***************************************************************************)
follow_up_words ==
    {"tell me more", "more about", "what about", "about the",
     "first one", "second one", "third", "number", "article",
     "that place", "that product", "this video", "the paper",
     "link", "detail", "explain", "summarize"}

ContextLists ==
    {"current_articles", "current_papers", "current_places",
     "current_products", "current_media", "current_results"}

\* the trigger words of the keyword routing and of the media handler
route_words ==
    {"news", "today", "latest", "breaking", "research", "paper", "study",
     "scholar", "place", "restaurant", "hotel", "near", "buy", "price", "shop",
     "product", "image", "video", "photo"}

\* the words of the news agent's lists that each turn text contains
InLowered ==
    [t \in AllTexts |->
        {w \in follow_up_words \cup route_words : Contains(Lowered(t), Chars(w))}]

\* any(word in last_message.lower() for word in words)
AnyInLowered(words, t) == (words \cap InLowered[t]) # {}

_check_for_follow_up(last_message, context) ==
    LET has_context == \E k \in ContextLists : Get(context, k, <<>>) # <<>>
    IN  has_context /\ AnyInLowered(follow_up_words, last_message)

\* the keyword routing of _router_agent's except branch
KeywordRoute(last_message) ==
    IF AnyInLowered({"news", "today", "latest", "breaking"}, last_message)
    THEN "news_agent"
    ELSE IF AnyInLowered({"research", "paper", "study", "scholar"}, last_message)
    THEN "research_agent"
    ELSE IF AnyInLowered({"place", "restaurant", "hotel", "near"}, last_message)
    THEN "local_agent"
    ELSE IF AnyInLowered({"buy", "price", "shop", "product"}, last_message)
    THEN "shopping_agent"
    ELSE IF AnyInLowered({"image", "video", "photo"}, last_message)
    THEN "media_agent"
    ELSE "web_agent"

\* _router_agent: the values of state["current_agent"] it can return; an
\* answer of the routing model is its JSON's "agent", or unusable
_router_agent(last_message, context, env) ==
    IF _check_for_follow_up(last_message, context)
    THEN {"deepdive_agent"}
    ELSE {IF a.parsed THEN a.agent ELSE KeywordRoute(last_message)
            : a \in env.subrouter}

\* the path map of add_conditional_edges in _build_graph
RouterEdges ==
    {"news_agent", "research_agent", "local_agent", "shopping_agent",
     "media_agent", "web_agent", "deepdive_agent"}

\* dict[key] = value
Put(d, key, value) ==
    [k \in DOMAIN d \cup {key} |-> IF k = key THEN value ELSE d[k]]

Take(seq, n) == SubSeq(seq, 1, IF Len(seq) < n THEN Len(seq) ELSE n)

\* search handlers that drop the category's list when the query fails
SearchHandlerForgetting(last_message, context, list_key, search_type, env) ==
    {IF r.success
     THEN <<Msg("found_" \o search_type, <<>>, Len(r.items), Take(r.items, 5)),
            Put(Put(Put(context, list_key, r.items),
                    "last_search_type", search_type),
                "last_query", last_message)>>
     ELSE <<Msg("no_" \o search_type, <<>>, 0, <<>>),
            Put(context, list_key, <<>>)>>
       : r \in env.serper}

\* the six search handlers: one provider query, the category's list and the
\* last-search markers overwritten on success
SearchHandler(last_message, context, list_key, search_type, env) ==
    {IF r.success
     THEN <<Msg("found_" \o search_type, <<>>, Len(r.items), Take(r.items, 5)),
            Put(Put(Put(context, list_key, r.items),
                    "last_search_type", search_type),
                "last_query", last_message)>>
     ELSE <<Msg("no_" \o search_type, <<>>, 0, <<>>), context>>
       : r \in env.serper}

number_words ==
    <<<<"first", 0>>, <<"1", 0>>, <<"one", 0>>,
      <<"second", 1>>, <<"2", 1>>, <<"two", 1>>,
      <<"third", 2>>, <<"3", 2>>, <<"three", 2>>,
      <<"fourth", 3>>, <<"4", 3>>, <<"four", 3>>,
      <<"fifth", 4>>, <<"5", 4>>, <<"five", 4>>>>

NoIndex == -1

\* the loop over number_words.items(): the index of the first word found
FirstNumberWord(last_message) ==
    IF \E i \in 1..Len(number_words) :
           Contains(last_message, Chars(number_words[i][1]))
    THEN number_words[CHOOSE i \in 1..Len(number_words) :
            /\ Contains(last_message, Chars(number_words[i][1]))
            /\ \A j \in 1..(i - 1) :
                   ~Contains(last_message, Chars(number_words[j][1]))][2]
    ELSE NoIndex

\* item_index of _deepdive_agent on each turn text
ItemIndex == [t \in AllTexts |-> FirstNumberWord(Lowered(t))]

\* a lookup that reads the news list whatever the last search was
StoredArticles(context) == Get(context, "current_articles", <<>>)

StoredItems(context) ==
    LET search_type == Get(context, "last_search_type", "")
    IN  IF search_type = "news" THEN Get(context, "current_articles", <<>>)
        ELSE IF search_type = "research" THEN Get(context, "current_papers", <<>>)
        ELSE IF search_type = "places" THEN Get(context, "current_places", <<>>)
        ELSE IF search_type = "shopping" THEN Get(context, "current_products", <<>>)
        ELSE IF search_type \in {"images", "videos"}
        THEN Get(context, "current_media", <<>>)
        ELSE IF search_type = "web" THEN Get(context, "current_results", <<>>)
        ELSE <<>>

\* a follow-up handler that records the follow-up as the last query
_deepdive_recording(message, context) ==
    LET stored_items == StoredItems(context)
    IN  <<IF stored_items = <<>>
          THEN Msg("no_previous_results", <<>>, 0, <<>>)
          ELSE Msg("overview", <<>>, Len(stored_items), Take(stored_items, 5)),
          Put(context, "last_query", message)>>

_deepdive_agent(message, context) ==
    LET item_index == ItemIndex[message]
        stored_items == StoredItems(context)
    IN  IF stored_items = <<>>
        THEN <<Msg("no_previous_results", <<>>, 0, <<>>), context>>
        ELSE IF item_index # NoIndex /\ item_index < Len(stored_items)
        THEN <<Msg("item_detail", <<>>, item_index + 1,
                   <<stored_items[item_index + 1]>>), context>>
        ELSE <<Msg("overview", <<>>, Len(stored_items), Take(stored_items, 5)),
               context>>

\* the node the router's edge leads to
NewsNode(agent, message, context, env) ==
    IF agent = "news_agent"
    THEN SearchHandler(message, context, "current_articles", "news", env)
    ELSE IF agent = "research_agent"
    THEN SearchHandler(message, context, "current_papers", "research", env)
    ELSE IF agent = "local_agent"
    THEN SearchHandler(message, context, "current_places", "places", env)
    ELSE IF agent = "shopping_agent"
    THEN SearchHandler(message, context, "current_products", "shopping", env)
    ELSE IF agent = "media_agent"
    THEN SearchHandler(message, context, "current_media",
                       IF AnyInLowered({"video"}, message)
                       THEN "videos" ELSE "images", env)
    ELSE IF agent = "web_agent"
    THEN SearchHandler(message, context, "current_results", "web", env)
    ELSE {_deepdive_agent(message, context)}

Raised == [raised |-> TRUE, response |-> NoReply, context |-> EmptyDict]

Returned(response, context) ==
    [raised |-> FALSE, response |-> response, context |-> context]

\* NewsIntelligenceAgent.process: what graph.invoke can end with; an
\* agent the path map does not name makes the graph raise
NewsProcess(user_input, conversation_state, env) ==
    UNION {IF agent \in RouterEdges
           THEN {Returned(r[1], r[2]) :
                   r \in NewsNode(agent, user_input, conversation_state, env)}
           ELSE {Raised}
             : agent \in _router_agent(user_input, conversation_state, env)}

(***************************************************************************)
(* agents/weather_agent.py: a turn returns the agent's reply text or raises *)
(***************************************************************************)
WeatherProcess(user_input, env) ==
    {IF o = "raise" THEN Raised ELSE Returned(Msg(o, <<>>, 0, <<>>), EmptyDict)
       : o \in env.weather}

(***************************************************************************)
(* agents/email_agent.py: the fields of the one EmailCalendarAgent and the  *)
(* GoogleAPIClient calls a turn makes                                      *)
(***************************************************************************)
\* Python's None is <<>> and a value v is <<v>>
None == <<>>

Some(v) == <<v>>

\* bool(x) of an optional str: neither None nor ''
Truthy(x) == IF x = None THEN FALSE ELSE x[1] # ""

\* a call of a GoogleAPIClient method and its arguments
Call(op, args) == [op |-> op, args |-> args]

\* an email as get_email_details returns it
Email(id, sender, subject, thread_id) ==
    [id |-> id, sender |-> sender, subject |-> subject, thread_id |-> thread_id,
     body |-> "body of " \o id]

\* meeting_details: {} and {"has_meeting": False} alike
NoMeeting ==
    [has_meeting |-> FALSE, date_ok |-> FALSE, is_available |-> "unset",
     topic |-> ""]

\* EmailCalendarAgent.__init__
NewEmailAgent ==
    [current_email |-> None, cached_emails |-> <<>>, draft_ready |-> None,
     meeting_ready |-> None]

DigitChars == <<"0", "1", "2", "3", "4", "5", "6", "7", "8", "9">>

DigitValue(c) == (CHOOSE k \in 1..10 : DigitChars[k] = c) - 1

\* int(match.group(1))
RECURSIVE ParseInt(_)
ParseInt(ds) ==
    IF ds = <<>> THEN 0
    ELSE 10 * ParseInt(SubSeq(ds, 1, Len(ds) - 1)) + DigitValue(ds[Len(ds)])

\* the end of the run of digits that starts at i
RunEnd(s, i) ==
    CHOOSE j \in i..Len(s) :
        /\ \A k \in i..j : s[k] \in Digits
        /\ (j = Len(s) \/ s[j + 1] \notin Digits)

\* where r'\b(\d+)\b' matches in s
MatchStarts(s) ==
    {i \in 1..Len(s) :
        /\ s[i] \in Digits
        /\ (i = 1 \/ ~IsWordChar(s[i - 1]))
        /\ (RunEnd(s, i) = Len(s) \/ ~IsWordChar(s[RunEnd(s, i) + 1]))}

NoMatch == -1

\* re.search(r'\b(\d+)\b', user_input) and int(match.group(1))
FirstInteger(s) ==
    IF MatchStarts(s) = {} THEN NoMatch
    ELSE LET i == CHOOSE m \in MatchStarts(s) : \A n \in MatchStarts(s) : m <= n
         IN  ParseInt(SubSeq(s, i, RunEnd(s, i)))

\* the number a turn text selects
SelectedNumber == [t \in AllTexts |-> FirstInteger(Chars(t))]

confirm_tokens == {"yes", "y", "confirm", "send", "send it"}
cancel_tokens == {"no", "n", "cancel", "skip"}
full_tokens == {"full", "full content", "show all", "read all"}

\* the token of process's `user_lower in [...]` tests that each text is
UserLowerIs ==
    [t \in AllTexts |->
        {w \in confirm_tokens \cup cancel_tokens \cup full_tokens :
            LowerStripped(t) = Chars(w)}]

email_words ==
    {"check", "show", "list", "email", "inbox", "unread", "reply", "draft",
     "schedule", "analyze", "respond"}

\* the words of process's `word in user_lower` tests that each text contains
InUserLower ==
    [t \in AllTexts |-> {w \in email_words : Contains(LowerStripped(t), Chars(w))}]

AnyInUserLower(words, t) == (words \cap InUserLower[t]) # {}

\* _decide_next_action on what _triage_email left in the state
_decide_next_action(triage) ==
    IF triage.category = "Meeting Request" THEN "extract_meeting"
    ELSE IF triage.action \in {"Reply", "Action Required"} THEN "draft_response"
    ELSE "end"

\* _extract_meeting_details: the (meeting_details, calls) it can end with
_extract_meeting_details(env) ==
    UNION {IF m.has_meeting /\ m.date_ok
           THEN {<<[m EXCEPT !.is_available = free],
                   <<Call("get_free_busy", <<m.topic>>)>>>> : free \in env.free_busy}
           ELSE {<<m, <<>>>>}
             : m \in env.meeting}

\* _execute_actions: the calls it makes
_execute_actions(email, draft_response, meeting_details, send_reply, create_event) ==
    (IF send_reply /\ draft_response # ""
     THEN <<Call("send_email",
                 <<email.sender, email.subject, draft_response, email.thread_id>>)>>
     ELSE <<>>)
    \o (IF /\ create_event
           /\ meeting_details.has_meeting
           /\ meeting_details.is_available = "free"
           /\ meeting_details.date_ok
        THEN <<Call("create_calendar_event", <<meeting_details.topic, email.sender>>)>>
        ELSE <<>>)
    \o <<Call("mark_as_read", <<email.id>>)>>

GraphResult(triage, draft_response, meeting_details, calls) ==
    [category |-> triage.category, action |-> triage.action,
     draft_response |-> draft_response, meeting_details |-> meeting_details,
     calls |-> calls]

\* graph.invoke(initial_state): triage, then by _decide_next_action the
\* meeting extraction, the draft, the actions, and the summary
Graph(email, send_reply, create_event, env) ==
    UNION {
        LET next == _decide_next_action(triage)
            meetings == IF next = "extract_meeting"
                        THEN _extract_meeting_details(env)
                        ELSE {<<NoMeeting, <<>>>>}
        IN  IF next = "end"
            THEN {GraphResult(triage, "", NoMeeting, <<>>)}
            ELSE {GraphResult(triage, draft, m[1],
                              m[2] \o _execute_actions(email, draft, m[1],
                                                       send_reply, create_event))
                    : m \in meetings, draft \in env.draft}
        : triage \in env.triage}

EmailResult(raised, response, agent, calls) ==
    [raised |-> raised, response |-> response, agent |-> agent, calls |-> calls]

EmailMsg(kind, results) == Msg(kind, <<>>, 0, results)

\* the send_email call that sends the pending draft
SendCall(agent) ==
    LET email == agent.current_email[1]
    IN  Call("send_email",
             <<email.sender, email.subject, agent.draft_ready[1], email.thread_id>>)

\* a confirmation that leaves the draft pending when the send fails
SendDraftKeepingFailed(agent, env) ==
    {IF success
     THEN EmailResult(FALSE, EmailMsg("reply_sent", <<>>),
                      [agent EXCEPT !.current_email = None, !.draft_ready = None],
                      <<SendCall(agent),
                        Call("mark_as_read", <<agent.current_email[1].id>>)>>)
     ELSE EmailResult(FALSE, EmailMsg("failed_to_send", <<>>), agent,
                      <<SendCall(agent)>>)
       : success \in env.send}

\* a confirmation that keeps the selection after a successful send
SendDraftKeepingSelection(agent, env) ==
    {IF success
     THEN EmailResult(FALSE, EmailMsg("reply_sent", <<>>),
                      [agent EXCEPT !.draft_ready = None],
                      <<SendCall(agent),
                        Call("mark_as_read", <<agent.current_email[1].id>>)>>)
     ELSE EmailResult(FALSE, EmailMsg("failed_to_send", <<>>),
                      [agent EXCEPT !.draft_ready = None], <<SendCall(agent)>>)
       : success \in env.send}

\* the confirmation of a pending draft (`if self.draft_ready:`)
SendDraft(agent, env) ==
    IF agent.current_email = None
    THEN {EmailResult(TRUE, NoReply, agent, <<>>)}
    ELSE {IF success
          THEN EmailResult(FALSE, EmailMsg("reply_sent", <<>>),
                           [agent EXCEPT !.current_email = None,
                                         !.draft_ready = None],
                           <<SendCall(agent),
                             Call("mark_as_read", <<agent.current_email[1].id>>)>>)
          ELSE EmailResult(FALSE, EmailMsg("failed_to_send", <<>>),
                           [agent EXCEPT !.draft_ready = None],
                           <<SendCall(agent)>>)
            : success \in env.send}

\* the confirmation of a pending meeting (`elif self.meeting_ready:`)
ScheduleMeeting(agent, env) ==
    LET mtg == agent.meeting_ready[1]
    IN  IF ~mtg.date_ok \/ agent.current_email = None
        THEN {EmailResult(FALSE, EmailMsg("error_scheduling_meeting", <<>>),
                          agent, <<>>)}
        ELSE {EmailResult(FALSE,
                          EmailMsg(IF success THEN "meeting_scheduled"
                                   ELSE "failed", <<>>),
                          [agent EXCEPT !.meeting_ready = None],
                          <<Call("create_calendar_event",
                                 <<mtg.topic, agent.current_email[1].sender>>)>>)
                : success \in env.create}

\* the confirmation handlers of process
ConfirmPending(agent, env) ==
    IF Truthy(agent.draft_ready) THEN SendDraft(agent, env)
    ELSE IF agent.meeting_ready # None THEN ScheduleMeeting(agent, env)
    ELSE {EmailResult(FALSE, EmailMsg("nothing_to_confirm", <<>>), agent, <<>>)}

\* "LIST EMAILS"
ListEmails(agent, env) ==
    {IF u.raises
     THEN EmailResult(TRUE, NoReply, agent, <<Call("get_unread_emails", <<>>)>>)
     ELSE EmailResult(FALSE,
                      IF u.emails = <<>> THEN EmailMsg("no_unread_emails", <<>>)
                      ELSE EmailMsg("your_unread_emails", u.emails),
                      [agent EXCEPT !.cached_emails = u.emails],
                      <<Call("get_unread_emails", <<>>)>>)
       : u \in env.unread}

\* an out-of-range answer that also drops the selected email
InvalidSelectionDeselecting(agent, cached_emails, calls) ==
    EmailResult(FALSE, Msg("invalid_selection", <<>>, Len(cached_emails), <<>>),
                [agent EXCEPT !.cached_emails = cached_emails,
                              !.current_email = None], calls)

\* "Invalid selection. Please choose 1-{len(self.cached_emails)}"
InvalidSelection(agent, cached_emails, calls) ==
    EmailResult(FALSE, Msg("invalid_selection", <<>>, Len(cached_emails), <<>>),
                [agent EXCEPT !.cached_emails = cached_emails], calls)

\* "SELECT EMAIL BY NUMBER" on the list cached_emails
SelectFrom(agent, cached_emails, email_index, calls) ==
    IF email_index < 0 \/ email_index >= Len(cached_emails)
    THEN InvalidSelection(agent, cached_emails, calls)
    ELSE EmailResult(FALSE,
                     EmailMsg("email_selected", <<cached_emails[email_index + 1]>>),
                     [agent EXCEPT !.cached_emails = cached_emails,
                                   !.current_email =
                                       Some(cached_emails[email_index + 1])],
                     calls)

\* a selection that fetches the unread emails every time
SelectEmailRefetching(user_input, agent, env) ==
    {IF u.raises
     THEN EmailResult(FALSE, EmailMsg("error_selecting_email", <<>>), agent,
                      <<Call("get_unread_emails", <<>>)>>)
     ELSE SelectFrom(agent, u.emails, SelectedNumber[user_input] - 1,
                     <<Call("get_unread_emails", <<>>)>>)
       : u \in env.unread}

SelectEmail(user_input, agent, env) ==
    LET email_index == SelectedNumber[user_input] - 1
    IN  IF agent.cached_emails # <<>>
        THEN {SelectFrom(agent, agent.cached_emails, email_index, <<>>)}
        ELSE {IF u.raises
              THEN EmailResult(FALSE, EmailMsg("error_selecting_email", <<>>),
                               agent, <<Call("get_unread_emails", <<>>)>>)
              ELSE SelectFrom(agent, u.emails, email_index,
                              <<Call("get_unread_emails", <<>>)>>)
                : u \in env.unread}

\* "ANALYZE CURRENT EMAIL"
Analyze(agent, env) ==
    IF agent.current_email = None
    THEN {EmailResult(FALSE, EmailMsg("no_email_selected", <<>>), agent, <<>>)}
    ELSE {EmailResult(FALSE,
                      EmailMsg("email_analysis",
                               <<result.category, result.action,
                                 result.meeting_details>>),
                      agent, result.calls)
            : result \in Graph(agent.current_email[1], FALSE, FALSE, env)}

\* "DRAFT REPLY FOR CURRENT EMAIL"
DraftReply(agent, env) ==
    IF agent.current_email = None
    THEN {EmailResult(FALSE, EmailMsg("no_email_selected", <<>>), agent, <<>>)}
    ELSE {LET meeting_ready == IF result.meeting_details.has_meeting
                               THEN Some(result.meeting_details) ELSE None
          IN  EmailResult(FALSE,
                          EmailMsg("draft_reply",
                                   <<result.draft_response>>
                                   \o (IF result.meeting_details.has_meeting
                                          /\ result.meeting_details.is_available = "free"
                                       THEN <<result.meeting_details.topic>>
                                       ELSE <<>>)),
                          [agent EXCEPT !.draft_ready = Some(result.draft_response),
                                        !.meeting_ready = meeting_ready],
                          result.calls)
            : result \in Graph(agent.current_email[1], FALSE, FALSE, env)}

\* a cancellation that forgets the draft only
CancelDraftOnly(agent) ==
    EmailResult(FALSE, EmailMsg("cancelled", <<>>),
                [agent EXCEPT !.draft_ready = None], <<>>)

\* `if user_lower in ["no", "n", "cancel", "skip"]`
Cancel(agent) ==
    EmailResult(FALSE, EmailMsg("cancelled", <<>>),
                [agent EXCEPT !.draft_ready = None, !.meeting_ready = None], <<>>)

\* "SHOW FULL CONTENT OF CURRENT EMAIL"
FullContent(agent) ==
    EmailResult(FALSE,
                IF agent.current_email = None
                THEN EmailMsg("no_email_selected", <<>>)
                ELSE EmailMsg("full_email", agent.current_email),
                agent, <<>>)

\* "DEFAULT HELP"
DefaultHelp(agent) ==
    EmailResult(FALSE,
                EmailMsg(IF agent.cached_emails = <<>>
                         THEN "email_calendar_assistant"
                         ELSE "available_commands", <<>>),
                agent, <<>>)

\* the branch of process that each text takes, by the order of its tests
Command ==
    [t \in AllTexts |->
        IF UserLowerIs[t] \cap confirm_tokens # {} THEN "confirm"
        ELSE IF UserLowerIs[t] \cap cancel_tokens # {} THEN "cancel"
        ELSE IF /\ AnyInUserLower({"check", "show", "list"}, t)
                /\ AnyInUserLower({"email", "inbox", "unread"}, t)
        THEN "list"
        ELSE IF /\ SelectedNumber[t] # NoMatch
                /\ ~AnyInUserLower({"reply", "draft", "schedule"}, t)
        THEN "select"
        ELSE IF UserLowerIs[t] \cap full_tokens # {} THEN "full"
        ELSE IF AnyInUserLower({"analyze"}, t) THEN "analyze"
        ELSE IF AnyInUserLower({"draft", "reply", "respond"}, t) THEN "draft"
        ELSE "help"]

\* EmailCalendarAgent.process: what a turn can end with, the agent's fields
\* after it and the GoogleAPIClient calls it made
EmailProcess(user_input, agent, env) ==
    CASE Command[user_input] = "confirm" -> ConfirmPending(agent, env)
      [] Command[user_input] = "cancel" -> {Cancel(agent)}
      [] Command[user_input] = "list" -> ListEmails(agent, env)
      [] Command[user_input] = "select" -> SelectEmail(user_input, agent, env)
      [] Command[user_input] = "full" -> {FullContent(agent)}
      [] Command[user_input] = "analyze" -> Analyze(agent, env)
      [] Command[user_input] = "draft" -> DraftReply(agent, env)
      [] OTHER -> {DefaultHelp(agent)}

(***************************************************************************)
(* agents/orchestrator.py                                                  *)
(***************************************************************************)
BareTokens ==
    {"yes", "no", "confirm", "cancel", "yeah", "sure", "ok", "okay",
     "proceed", "go ahead", "not now", "stop", "nevermind", "nope"}

\* the first block of route with only its stage test
StayOnlyOnStage(user_input, conversation_state) ==
    /\ conversation_state.current_agent = "grocery_agent"
    /\ Get(Get(conversation_state, "grocery_context", EmptyDict),
           "confirmation_stage", "initial") # "initial"

\* the turn texts whose lower().strip() is one of the bare tokens
BareTokenTexts == {t \in AllTexts : \E w \in BareTokens : LowerStripped(t) = Chars(w)}

\* the first block of route with only its bare token test
StayOnlyOnToken(user_input, conversation_state) ==
    /\ conversation_state.current_agent = "grocery_agent"
    /\ user_input \in BareTokenTexts

\* the first block of route: the agent chosen without asking the model
StayWithGrocery(user_input, conversation_state) ==
    LET grocery_context == Get(conversation_state, "grocery_context", EmptyDict)
    IN  /\ conversation_state.current_agent = "grocery_agent"
        /\ \/ Get(grocery_context, "awaiting_confirmation", FALSE)
           \/ Get(grocery_context, "confirmation_stage", "initial") # "initial"
           \/ user_input \in BareTokenTexts

\* an answer in which no valid agent name is found
RawAnswer == "<raw answer>"

ValidAgents == <<"news_agent", "weather_agent", "email_agent", "grocery_agent">>

\* the cleaning loop of route: the first valid name found in the answer, or
\* the answer itself
CleanAnswer(content) ==
    LET agent_name == Lower(Strip(content))
    IN  IF \E i \in 1..Len(ValidAgents) : Contains(agent_name, Chars(ValidAgents[i]))
        THEN ValidAgents[CHOOSE i \in 1..Len(ValidAgents) :
                /\ Contains(agent_name, Chars(ValidAgents[i]))
                /\ \A j \in 1..(i - 1) :
                       ~Contains(agent_name, Chars(ValidAgents[j]))]
        ELSE RawAnswer

\* the answers of the classification model
ClassifierContents ==
    {"news_agent", "weather_agent", "email_agent", "Grocery_Agent ",
     "email_agent or grocery_agent", "I am not sure"}

\* the cleaning loop on each answer
Cleaned == [c \in ClassifierContents |-> CleanAnswer(Chars(c))]

HelpText == Msg("i_can_help_you_with", <<>>, 0, <<>>)

\* what route returns or raises; classifier records how the classification
\* went: "not_called", "raised", "valid" (a valid agent named) or "none";
\* email is the email agent after the call and calls the GoogleAPIClient
\* calls made
RouteResult(raised, agent_name, response, state, classifier, email, calls) ==
    [raised |-> raised, agent_name |-> agent_name, response |-> response,
     conversation_state |-> state, classifier |-> classifier,
     email |-> email, calls |-> calls]

\* the dispatch of route ("# Route to agent")
Dispatch(agent_name, user_input, conversation_state, classifier, email, env) ==
    IF agent_name = "news_agent"
    THEN {IF r.raised
          THEN RouteResult(TRUE, agent_name, NoReply, conversation_state,
                           classifier, email, <<>>)
          ELSE RouteResult(FALSE, agent_name, r.response,
                           [conversation_state EXCEPT !.news_context = r.context],
                           classifier, email, <<>>)
            : r \in NewsProcess(user_input, conversation_state.news_context, env)}
    ELSE IF agent_name = "weather_agent"
    THEN {RouteResult(r.raised, agent_name, r.response, conversation_state,
                      classifier, email, <<>>)
            : r \in WeatherProcess(user_input, env)}
    ELSE IF agent_name = "email_agent"
    THEN {RouteResult(r.raised, agent_name, r.response, conversation_state,
                      classifier, r.agent, r.calls)
            : r \in EmailProcess(user_input, email, env)}
    ELSE IF agent_name = "grocery_agent"
    THEN {RouteResult(FALSE, agent_name, r[1],
                      [conversation_state EXCEPT !.grocery_context = r[2]],
                      classifier, email, <<>>)
            : r \in GroceryProcess(user_input,
                                   conversation_state.grocery_context, env)}
    ELSE {RouteResult(FALSE, "general", HelpText, conversation_state, classifier,
                      email, <<>>)}

\* MasterRouterAgent.route: what it can return or raise
route(user_input, conversation_state, email, env) ==
    IF StayWithGrocery(user_input, conversation_state)
    THEN Dispatch("grocery_agent", user_input, conversation_state,
                  "not_called", email, env)
    ELSE UNION {IF a.raises
                THEN {RouteResult(FALSE, "error", Msg("Error", <<>>, 0, <<>>),
                                  conversation_state, "raised", email, <<>>)}
                ELSE Dispatch(Cleaned[a.content], user_input, conversation_state,
                              IF Cleaned[a.content] = RawAnswer
                              THEN "none" ELSE "valid", email, env)
                  : a \in env.classifier}

(***************************************************************************)
(* core/session_manager.py, api/routes                                     *)
(***************************************************************************)
VARIABLES
    sessions,      \* SessionManager._sessions
    last,          \* the last request and the response it got
    email_agent,   \* the fields of the email agent, one for all sessions
    google_calls,  \* the GoogleAPIClient calls the last request made
    drafted_from,  \* history: the email the last draft request worked on
    audio_turn,    \* the session an audio turn holds while it awaits its upload
    agent_state,   \* the AgentState of a grocery graph run between its nodes
    unread_call,   \* a get_unread_emails call of the mail adapter in progress
    weather_state  \* the WeatherAgentState of a weather graph run in progress

vars == <<sessions, last, email_agent, google_calls, drafted_from, audio_turn, agent_state, unread_call, weather_state>>

\* the runs of a single handler, idle while the sessions take their turns
runs == <<agent_state, unread_call, weather_state>>

NewSession ==
    [history |-> <<>>, news_context |-> EmptyDict,
     grocery_context |-> EmptyDict, current_agent |-> "None"]

\* SessionManager.get_or_create: the store after the call
get_or_create(store, session_id) ==
    IF session_id \notin DOMAIN store
    THEN [k \in DOMAIN store \cup {session_id} |->
            IF k = session_id THEN NewSession ELSE store[k]]
    ELSE store

\* SessionManager.update
update(store, session_id, data) ==
    [k \in DOMAIN store \cup {session_id} |->
        IF k = session_id THEN data ELSE store[k]]

\* a clear that empties the session's history and keeps the session
clear_history(store, session_id) ==
    [k \in DOMAIN store |->
        IF k = session_id THEN [store[k] EXCEPT !.history = <<>>] ELSE store[k]]

\* SessionManager.clear: the store after the call
clear(store, session_id) == [k \in DOMAIN store \ {session_id} |-> store[k]]

\* "Handle grocery agent state persistence"
NextCurrentAgent(agent_name, updated_state) ==
    IF agent_name = "grocery_agent"
    THEN IF Get(updated_state.grocery_context, "confirmation_stage", "initial")
              \in {"completed", "cancelled"}
         THEN "None" ELSE "grocery_agent"
    ELSE agent_name

\* the two history.append calls; an entry keeps its role and the turn it
\* belongs to
AppendTurn(history) ==
    LET n == Len(history) \div 2 + 1
    IN  history \o <<[role |-> "You", turn |-> n], [role |-> "Assistant", turn |-> n]>>

\* history[:10]
FirstTen(history) ==
    SubSeq(history, 1, IF Len(history) > 10 THEN 10 ELSE Len(history))

\* history[-10:]
LastTen(history) ==
    SubSeq(history, IF Len(history) > 10 THEN Len(history) - 9 ELSE 1, Len(history))

Response(request, session_id, text, status, agent_name, response, current_agent, stage, history, classifier) ==
    [request |-> request, session_id |-> session_id, text |-> text,
     status |-> status, agent_name |-> agent_name, response |-> response,
     current_agent |-> current_agent, stage |-> stage,
     conversation_history |-> history, classifier |-> classifier]

\* POST /message
process_text_message(session_id, text, env) ==
    LET store == get_or_create(sessions, session_id)
    IN  \E r \in route(text, store[session_id], email_agent, env) :
          /\ email_agent' = r.email
          /\ google_calls' = r.calls
          /\ drafted_from' = IF r.agent_name = "email_agent"
                                 /\ r.response.kind = "draft_reply"
                              THEN email_agent.current_email ELSE drafted_from
          /\ UNCHANGED <<audio_turn, runs>>
          /\ IF r.raised
             THEN /\ sessions' = store
                  /\ last' = Response("message", session_id, text, 500, r.agent_name,
                                       NoReply, "None", "None", <<>>,
                                       r.classifier)
             ELSE LET current == NextCurrentAgent(r.agent_name, r.conversation_state)
                      updated_state ==
                          [r.conversation_state EXCEPT
                             !.current_agent = current,
                             !.history = AppendTurn(@)]
                      stage == IF r.agent_name = "grocery_agent"
                               THEN Get(updated_state.grocery_context,
                                        "confirmation_stage", "initial")
                               ELSE "None"
                  IN  /\ sessions' = update(store, session_id, updated_state)
                      /\ last' = Response("message", session_id, text, 200,
                                           r.agent_name, r.response, current, stage,
                                           LastTen(updated_state.history),
                                           r.classifier)

\* DELETE /session/{session_id}
clear_session(session_id) ==
    /\ sessions' = clear(sessions, session_id)
    /\ last' = Response("clear", session_id, "",
                         IF session_id \in DOMAIN sessions THEN 200 ELSE 404,
                         "None", NoReply, "None", "None", <<>>, "not_called")
    /\ google_calls' = <<>>
    /\ UNCHANGED <<email_agent, drafted_from, audio_turn, runs>>

\* GET /session/{session_id}
get_session(session_id) ==
    /\ last' = IF session_id \in DOMAIN sessions
                THEN Response("get", session_id, "", 200, "None", NoReply,
                              sessions[session_id].current_agent, "None",
                              sessions[session_id].history, "not_called")
                ELSE Response("get", session_id, "", 404, "None", NoReply,
                              "None", "None", <<>>, "not_called")
    /\ google_calls' = <<>>
    /\ UNCHANGED <<sessions, email_agent, drafted_from, audio_turn, runs>>

\* POST /audio/process up to "await audio.read()": the session is obtained
\* and the request is suspended holding it
process_audio_begin(session_id) ==
    /\ audio_turn = None
    /\ sessions' = get_or_create(sessions, session_id)
    /\ audio_turn' = Some([session_id |-> session_id,
                           session |-> sessions'[session_id]])
    /\ UNCHANGED <<last, email_agent, google_calls, drafted_from, runs>>

\* POST /audio/process from the transcription on: an empty transcription and
\* a raising route end in the handler's except clause, otherwise the session
\* the request holds is routed and saved
process_audio_message(transcripts, env) ==
    /\ audio_turn # None
    /\ audio_turn' = None
    /\ UNCHANGED runs
    /\ LET session_id == audio_turn[1].session_id
           session == audio_turn[1].session
       IN  \E user_text \in transcripts :
             IF user_text = ""
             THEN /\ last' = Response("audio", session_id, user_text, 500, "None",
                                       NoReply, "None", "None", <<>>, "not_called")
                  /\ google_calls' = <<>>
                  /\ UNCHANGED <<sessions, email_agent, drafted_from>>
             ELSE \E r \in route(user_text, session, email_agent, env) :
                    /\ email_agent' = r.email
                    /\ google_calls' = r.calls
                    /\ drafted_from' = IF r.agent_name = "email_agent"
                                           /\ r.response.kind = "draft_reply"
                                        THEN email_agent.current_email
                                        ELSE drafted_from
                    /\ IF r.raised
                       THEN /\ sessions' = sessions
                            /\ last' = Response("audio", session_id, user_text, 500,
                                                 r.agent_name, NoReply, "None", "None",
                                                 <<>>, r.classifier)
                       ELSE LET current == NextCurrentAgent(r.agent_name,
                                                            r.conversation_state)
                                updated_state ==
                                    [r.conversation_state EXCEPT
                                       !.current_agent = current,
                                       !.history = AppendTurn(@)]
                                stage == IF r.agent_name = "grocery_agent"
                                         THEN Get(updated_state.grocery_context,
                                                  "confirmation_stage", "initial")
                                         ELSE "None"
                            IN  /\ sessions' = update(sessions, session_id,
                                                       updated_state)
                                /\ last' = Response("audio", session_id, user_text,
                                                     200, r.agent_name, r.response,
                                                     current, stage,
                                                     LastTen(updated_state.history),
                                                     r.classifier)

(***************************************************************************)
(* The environment: what the language models and the providers answer.     *)
(***************************************************************************)
ProductA == Offer(<<"Product", <<"A">>>>, 199, "Various Stores")
ProductB == Offer(<<"Product", <<"B">>>>, 349, "Various Stores")
ProductC == Offer(<<"Product", <<"C">>>>, 199, "Various Stores")

ClassifierAnswers(contents) ==
    {[raises |-> TRUE, content |-> ""]}
        \cup {[raises |-> FALSE, content |-> c] : c \in contents}

\* every agent reachable; the extraction model gives no usable list and the
\* product lookup finds nothing, so that carts come from the simple
\* extraction and the generic offers
Env ==
    [item_lists |-> {<<>>},
     provider_results |-> {<<>>},
     classifier |-> ClassifierAnswers(ClassifierContents),
     subrouter |->
        {[parsed |-> FALSE, agent |-> ""],
         [parsed |-> TRUE, agent |-> "news_agent"],
         [parsed |-> TRUE, agent |-> "finance_agent"]},
     serper |->
        {[success |-> FALSE, items |-> <<>>],
         [success |-> TRUE, items |-> <<"r1", "r2">>]},
     weather |-> {"weather_reply", "raise"},
     unread |-> {}, triage |-> {}, meeting |-> {}, free_busy |-> {},
     draft |-> {}, send |-> {}, create |-> {}]

\* the grocery agent in full: the extraction model gives no usable list (an
\* error text, no JSON, an empty list), a list of names or a list with a
\* non-str entry; the product lookup finds nothing or priced products
EnvGrocery ==
    [item_lists |->
        {<<>>, <<Chars("tomatoes"), Chars("eggs")>>, <<NonStringItem>>},
     provider_results |-> {<<>>, <<ProductB, ProductA, ProductC>>},
     classifier |->
        ClassifierAnswers({"Grocery_Agent ", "weather_agent", "I am not sure"}),
     subrouter |-> {},
     serper |-> {},
     weather |-> {"weather_reply"},
     unread |-> {}, triage |-> {}, meeting |-> {}, free_busy |-> {},
     draft |-> {}, send |-> {}, create |-> {}]

Message1 == Email("m1", "alice", "Lunch", "t1")
Message2 == Email("m2", "bob", "Report", "t2")

LunchMeeting ==
    [has_meeting |-> TRUE, date_ok |-> TRUE, is_available |-> "unset",
     topic |-> "Lunch"]

\* the email agent in full: every turn is classified as the email agent's;
\* the mailbox answers with a list of unread emails or the listing raises
\* after a failed re-authentication; triage, meeting extraction and draft
\* give their defaults or a result; sending and event creation succeed or
\* fail
EnvEmail ==
    [item_lists |-> {<<>>},
     provider_results |-> {<<>>},
     classifier |-> {[raises |-> FALSE, content |-> "email_agent"]},
     subrouter |-> {},
     serper |-> {},
     weather |-> {},
     unread |->
        {[raises |-> TRUE, emails |-> <<>>],
         [raises |-> FALSE, emails |-> <<>>],
         [raises |-> FALSE, emails |-> <<Message1, Message2>>],
         [raises |-> FALSE, emails |-> <<Message2>>]},
     triage |->
        {[category |-> "Information", action |-> "Reply"],
         [category |-> "Meeting Request", action |-> "Schedule"],
         [category |-> "Newsletter", action |-> "Archive"]},
     meeting |-> {NoMeeting, LunchMeeting},
     free_busy |-> {"free", "busy"},
     draft |-> {"", "Dear sender"},
     send |-> {TRUE, FALSE},
     create |-> {TRUE, FALSE}]

Init ==
    /\ sessions = EmptyDict
    /\ last = Response("none", "", "", 0, "None", NoReply, "None", "None", <<>>, "not_called")
    /\ email_agent = NewEmailAgent
    /\ google_calls = <<>>
    /\ drafted_from = None
    /\ audio_turn = None
    /\ agent_state = None
    /\ unread_call = None
    /\ weather_state = None

\* a session takes at most MaxTurns turns between two clears
CanTakeTurn(session_id) ==
    IF session_id \in DOMAIN sessions
    THEN Len(sessions[session_id].history) < 2 * MaxTurns
    ELSE TRUE

\* one turn of the session under an environment
Turn(session_id, env) ==
    \E text \in Texts :
        CanTakeTurn(session_id) /\ process_text_message(session_id, text, env)

Next ==
    \/ Turn("s1", Env)
    \/ clear_session("s1")

Spec == Init /\ [][Next]_vars

NextGrocery ==
    \/ Turn("s1", EnvGrocery)
    \/ clear_session("s1")

SpecGrocery == Init /\ [][NextGrocery]_vars

\* one turn of the session with a text of texts
TurnOf(texts, session_id, env) ==
    \E text \in texts :
        CanTakeTurn(session_id) /\ process_text_message(session_id, text, env)

\* one session works through its mailbox and a second one only confirms
NextEmail ==
    \/ TurnOf(EmailTexts, "s1", EnvEmail)
    \/ TurnOf({"yes"}, "s2", EnvEmail)
    \/ clear_session("s1")

SpecEmail == Init /\ [][NextEmail]_vars

\* the news agent in full: every turn is classified as the news agent's;
\* the routing model names the news or the research handler or gives no
\* usable JSON, and a search fails or returns no, one or three results
EnvNews ==
    [item_lists |-> {<<>>},
     provider_results |-> {<<>>},
     classifier |-> {[raises |-> FALSE, content |-> "news_agent"]},
     subrouter |->
        {[parsed |-> FALSE, agent |-> ""],
         [parsed |-> TRUE, agent |-> "news_agent"],
         [parsed |-> TRUE, agent |-> "research_agent"]},
     serper |->
        {[success |-> FALSE, items |-> <<>>],
         [success |-> TRUE, items |-> <<>>],
         [success |-> TRUE, items |-> <<"r1">>],
         [success |-> TRUE, items |-> <<"r1", "r2", "r3">>]},
     weather |-> {},
     unread |-> {}, triage |-> {}, meeting |-> {}, free_busy |-> {},
     draft |-> {}, send |-> {}, create |-> {}]

\* one session searches the news and asks about the results
NextNews ==
    \/ TurnOf(NewsTexts, "s1", EnvNews)
    \/ clear_session("s1")

SpecNews == Init /\ [][NextNews]_vars

\* one session takes turns with every agent, is looked at and is cleared
NextSession ==
    \/ Turn("s1", Env)
    \/ get_session("s1")
    \/ clear_session("s1")

SpecSession == Init /\ [][NextSession]_vars

\* one turn of a session that takes at most MaxOrderTurns turns
OrderTurn(session_id, env) ==
    \E text \in Texts :
        /\ IF session_id \in DOMAIN sessions
           THEN Len(sessions[session_id].history) < 2 * MaxOrderTurns
           ELSE TRUE
        /\ process_text_message(session_id, text, env)

\* one session orders groceries, long enough for an item request between
\* the building of a cart and its three confirmations
NextOrder ==
    \/ OrderTurn("s1", EnvGrocery)
    \/ clear_session("s1")

SpecOrder == Init /\ [][NextOrder]_vars

\* what the transcription of an upload gives: nothing or a turn text
Transcripts == Texts \cup {""}

\* an audio turn starts while the session may take a turn and none is
\* suspended
AudioBegin(session_id) ==
    CanTakeTurn(session_id) /\ process_audio_begin(session_id)

\* one session speaks its grocery turns and is cleared at any moment, also
\* while a turn awaits its upload
NextAudio ==
    \/ AudioBegin("s1")
    \/ process_audio_message(Transcripts, EnvGrocery)
    \/ clear_session("s1")

SpecAudio == Init /\ [][NextAudio]_vars

\* the turns of a session whose history outgrows the ten entries a response
\* carries
MaxHistoryTurns == 6

\* one turn of a session that takes at most MaxHistoryTurns turns
HistoryTurn(session_id, env) ==
    \E text \in {"yes", "cancel"} :
        /\ IF session_id \in DOMAIN sessions
           THEN Len(sessions[session_id].history) < 2 * MaxHistoryTurns
           ELSE TRUE
        /\ process_text_message(session_id, text, env)

\* one session takes turns with every agent, some of which end in a routing
\* error or raise, and is cleared
NextHistory ==
    \/ HistoryTurn("s1", Env)
    \/ clear_session("s1")

SpecHistory == Init /\ [][NextHistory]_vars

\* the longest list of item names the extraction returns in a graph run
MaxItems == 3

\* the names the extraction returns: two item names and an entry that is no
\* str
ItemNames == {Chars("tomatoes"), Chars("eggs"), NonStringItem}

\* the lists of at most MaxItems names, repeated names included
ItemLists == UNION {[1..n -> ItemNames] : n \in 0..MaxItems}

\* offers whose "price" is missing or 'N/A', which _reason_node sets apart
UnpricedD == Offer(<<"Product", <<"D">>>>, NoPrice, "Various Stores")
UnpricedE == Offer(<<"Product", <<"E">>>>, NoPrice, "Various Stores")

\* the product lookup finds nothing, priced products with the least price
\* twice, unpriced products only, or both kinds
EnvSelect ==
    [EnvGrocery EXCEPT !.provider_results =
        {<<>>, <<ProductB, ProductA, ProductC>>, <<UnpricedD, UnpricedE>>,
         <<UnpricedE, ProductC, ProductA>>}]

\* the AgentState that _understand_node hands to _search_node for an item
\* request that extracted items, in a session that holds cart
ItemRequest(items, cart) ==
    [user_text |-> "add milk",
     agent_response |-> NoReply,
     cart |-> cart,
     search_results |-> <<>>,
     awaiting_confirmation |-> cart # <<>>,
     conversation_history |-> <<>>,
     items_to_search |-> items,
     user_action |-> "search",
     order_confirmed |-> FALSE,
     confirmation_stage |-> "initial",
     search_results_by_item |-> <<>>]

\* a graph run is at the search node with some extracted list; the session
\* has no cart or the cart of an earlier request, which process read from
\* conversation_state (session_cart)
InitGraph ==
    /\ sessions = EmptyDict
    /\ last = Response("none", "", "", 0, "None", NoReply, "None", "None", <<>>, "not_called")
    /\ email_agent = NewEmailAgent
    /\ google_calls = <<>>
    /\ drafted_from = None
    /\ audio_turn = None
    /\ agent_state \in {Some([node |-> "search", session_cart |-> cart,
                                state |-> ItemRequest(items, cart)]) :
                           items \in ItemLists, cart \in {<<>>, <<ProductB>>}}
    /\ unread_call = None
    /\ weather_state = None

\* the edge search -> reason of the grocery graph
SearchNode ==
    /\ agent_state # None
    /\ agent_state[1].node = "search"
    /\ \E s \in _search_node(agent_state[1].state, EnvSelect) :
          agent_state' = Some([agent_state[1] EXCEPT !.node = "reason", !.state = s])
    /\ UNCHANGED <<sessions, last, email_agent, google_calls, drafted_from, audio_turn, unread_call, weather_state>>

\* the edge reason -> respond
ReasonNode ==
    /\ agent_state # None
    /\ agent_state[1].node = "reason"
    /\ agent_state' = Some([agent_state[1] EXCEPT
                              !.node = "respond", !.state = _reason_node(@)])
    /\ UNCHANGED <<sessions, last, email_agent, google_calls, drafted_from, audio_turn, unread_call, weather_state>>

\* the edge respond -> END
RespondNode ==
    /\ agent_state # None
    /\ agent_state[1].node = "respond"
    /\ agent_state' = Some([agent_state[1] EXCEPT
                              !.node = "end", !.state = _respond_node(@)])
    /\ UNCHANGED <<sessions, last, email_agent, google_calls, drafted_from, audio_turn, unread_call, weather_state>>

NextGraph == SearchNode \/ ReasonNode \/ RespondNode

SpecGraph == InitGraph /\ [][NextGraph]_vars

\* the depth to which a get_unread_emails call is followed into itself
MaxAttempts == 6

\* what messages().list answers when it succeeds
Listings ==
    {<<>>, <<Message1>>, <<Message2>>, <<Message1, Message2>>, <<Message2, Message1>>}

\* a frame of get_unread_emails: its position, the number of list requests
\* made so far, the messages still to fetch and the emails collected
UnreadCall(pc, attempts, messages, emails) ==
    [pc |-> pc, attempts |-> attempts, messages |-> messages, emails |-> emails]

\* GoogleAPIClient.get_unread_emails is called
InitUnread ==
    /\ sessions = EmptyDict
    /\ last = Response("none", "", "", 0, "None", NoReply, "None", "None", <<>>, "not_called")
    /\ email_agent = NewEmailAgent
    /\ google_calls = <<>>
    /\ drafted_from = None
    /\ audio_turn = None
    /\ agent_state = None
    /\ unread_call = Some(UnreadCall("list", 0, <<>>, <<>>))
    /\ weather_state = None

\* messages().list(...).execute(): a listing, an HttpError with status 401,
\* an HttpError with another status (the call returns []), or an exception
\* that is no HttpError
ExecuteList ==
    /\ unread_call # None
    /\ unread_call[1].pc = "list"
    /\ LET attempts == unread_call[1].attempts + 1
       IN  \/ \E messages \in Listings :
                unread_call' = Some(UnreadCall("details", attempts, messages, <<>>))
           \/ unread_call' = Some(UnreadCall("authenticate", attempts, <<>>, <<>>))
           \/ unread_call' = Some(UnreadCall("returned", attempts, <<>>, <<>>))
           \/ unread_call' = Some(UnreadCall("raised", attempts, <<>>, <<>>))
    /\ UNCHANGED <<sessions, last, email_agent, google_calls, drafted_from, audio_turn, agent_state, weather_state>>

\* the loop over messages: get_email_details gives the email, or None after
\* an HttpError of its own; the emails are returned after the last message
FetchDetails ==
    /\ unread_call # None
    /\ unread_call[1].pc = "details"
    /\ LET call == unread_call[1]
       IN  IF call.messages = <<>>
           THEN unread_call' = Some([call EXCEPT !.pc = "returned"])
           ELSE \E email_data \in {None, Some(Head(call.messages))} :
                  unread_call' =
                      Some([call EXCEPT !.messages = Tail(@),
                                        !.emails = @ \o email_data])
    /\ UNCHANGED <<sessions, last, email_agent, google_calls, drafted_from, audio_turn, agent_state, weather_state>>

\* the handler of a 401: authenticate() raises, or returns and
\* get_unread_emails calls itself
Authenticate ==
    /\ unread_call # None
    /\ unread_call[1].pc = "authenticate"
    /\ unread_call[1].attempts < MaxAttempts
    /\ \/ unread_call' = Some([unread_call[1] EXCEPT !.pc = "list"])
       \/ unread_call' = Some([unread_call[1] EXCEPT !.pc = "raised"])
    /\ UNCHANGED <<sessions, last, email_agent, google_calls, drafted_from, audio_turn, agent_state, weather_state>>

NextUnread == ExecuteList \/ FetchDetails \/ Authenticate

SpecUnread == InitUnread /\ [][NextUnread]_vars

\* the agent steps a weather graph run is followed for
MaxIterations == 12

\* the tool calls an answer of the model asks for: none, one, or two
ToolCallCounts == {0, 1, 2}

\* WeatherAgent.process starts the graph at the agent node with the
\* conversation so far and iteration 0; messages holds what the run adds
InitWeather ==
    /\ sessions = EmptyDict
    /\ last = Response("none", "", "", 0, "None", NoReply, "None", "None", <<>>, "not_called")
    /\ email_agent = NewEmailAgent
    /\ google_calls = <<>>
    /\ drafted_from = None
    /\ audio_turn = None
    /\ agent_state = None
    /\ unread_call = None
    /\ weather_state = Some([node |-> "agent", iteration |-> 0, messages |-> <<>>])

\* _should_continue on the state _agent_node returned
_should_continue(state) ==
    LET last_message == state.messages[Len(state.messages)]
    IN  IF last_message.tool_calls > 0 THEN "tools"
        ELSE IF state.iteration > 10 THEN "end"
        ELSE "end"

\* _agent_node and the conditional edge behind it: the model's answer is
\* added, the counter goes up and _should_continue names the next node
AgentNode ==
    /\ weather_state # None
    /\ weather_state[1].node = "agent"
    /\ weather_state[1].iteration < MaxIterations
    /\ \E n \in ToolCallCounts :
          LET state == [weather_state[1] EXCEPT
                          !.messages = Append(@, [type |-> "ai", tool_calls |-> n]),
                          !.iteration = @ + 1]
          IN  weather_state' = Some([state EXCEPT !.node = _should_continue(state)])
    /\ UNCHANGED <<sessions, last, email_agent, google_calls, drafted_from, audio_turn, agent_state, unread_call>>

\* the ToolNode and its edge to the agent: one tool message for each call
\* of the last answer
ToolsNode ==
    /\ weather_state # None
    /\ weather_state[1].node = "tools"
    /\ LET state == weather_state[1]
           calls == state.messages[Len(state.messages)].tool_calls
       IN  weather_state' =
               Some([state EXCEPT
                       !.node = "agent",
                       !.messages = @ \o [i \in 1..calls |->
                                            [type |-> "tool", tool_calls |-> 0]]])
    /\ UNCHANGED <<sessions, last, email_agent, google_calls, drafted_from, audio_turn, agent_state, unread_call>>

NextWeather == AgentNode \/ ToolsNode

SpecWeather == InitWeather /\ [][NextWeather]_vars

(***************************************************************************)
(* What the properties observe: the grocery context stored for the session *)
(* (read with the defaults of GroceryShoppingAgent.process) and the turn   *)
(* a step takes.                                                           *)
(***************************************************************************)
GroceryContext(store) ==
    IF "s1" \in DOMAIN store THEN store["s1"].grocery_context ELSE EmptyDict

Cart(store) == Get(GroceryContext(store), "cart", <<>>)

Stage(store) == Get(GroceryContext(store), "confirmation_stage", "initial")

Awaiting(store) == Get(GroceryContext(store), "awaiting_confirmation", FALSE)

CurrentAgent(store) ==
    IF "s1" \in DOMAIN store THEN store["s1"].current_agent ELSE "None"

\* the step is a POST /message
MessageStep == last'.request = "message"

\* the step is a turn the grocery agent handled
GroceryTurn ==
    /\ MessageStep
    /\ last'.status = 200
    /\ last'.agent_name = "grocery_agent"

\* the place of a grocery context on the path
\* initial -> cart built -> awaiting_yes -> awaiting_final -> completed
StageRank(store) ==
    IF Stage(store) = "initial" THEN (IF Awaiting(store) THEN 1 ELSE 0)
    ELSE IF Stage(store) = "awaiting_yes" THEN 2
    ELSE IF Stage(store) = "awaiting_final" THEN 3
    ELSE 4

\* the turn texts that are only a confirmation token
ConfirmationTokenTexts ==
    {t \in AllTexts : \E w \in yes_words \cup {"confirm"} : LowerStripped(t) = Chars(w)}

\* a confirmation is in progress in the grocery context
InProgress(store) == Stage(store) # "initial" \/ Awaiting(store)

\* a cart was built and no confirming turn has been taken yet
CartBuilt(store) ==
    Cart(store) # <<>> /\ Awaiting(store) /\ Stage(store) = "initial"

(***************************************************************************)
(* Properties.                                                             *)
(***************************************************************************)
\* C1: from a non-terminal stage a grocery turn never moves the context
\* backwards on initial -> cart built -> awaiting_yes -> awaiting_final ->
\* completed, except to cancelled on a text holding a cancel word.
C1_StageMonotonic ==
    [][(GroceryTurn /\ Stage(sessions) \notin {"completed", "cancelled"})
         => \/ StageRank(sessions') >= StageRank(sessions)
            \/ /\ Stage(sessions') = "cancelled"
               /\ AnyInLowerStripped(no_words \cup {"clear", "reset"}, last'.text)]_vars

\* C2: a grocery turn whose text contains a cancel word ends with an empty
\* cart, stage cancelled and awaiting_confirmation false, whatever else the
\* text contains.
C2_CancelWordCancels ==
    [][(GroceryTurn /\ AnyInLowerStripped(no_words, last'.text))
         => /\ Cart(sessions') = <<>>
            /\ Stage(sessions') = "cancelled"
            /\ ~Awaiting(sessions')]_vars

\* C3: the item request, "confirm", "yes", "yes" scenario, one conjunct per
\* turn: an item request on a context with no cart that finds something
\* builds a non-empty cart, sets awaiting_confirmation and replies with the
\* cart lines and their total; "confirm" on the built cart gives
\* awaiting_yes and the order summary; "yes" gives awaiting_final and the
\* are-you-sure prompt, the cart unchanged by both; the second "yes" gives
\* completed, an empty cart, awaiting_confirmation false and the order-placed
\* reply.
C3_ConfirmationScenario ==
    [][/\ (/\ GroceryTurn
           /\ last'.text = "I want tomatoes and eggs"
           /\ Cart(sessions) = <<>> /\ ~InProgress(sessions)
           /\ last'.response.kind # "items_not_found")
          => /\ Cart(sessions') # <<>>
             /\ Awaiting(sessions')
             /\ last'.response = Reply("found_items", Cart(sessions'))
       /\ (MessageStep /\ last'.text = "confirm" /\ CartBuilt(sessions))
          => /\ GroceryTurn
             /\ Stage(sessions') = "awaiting_yes"
             /\ Cart(sessions') = Cart(sessions)
             /\ Awaiting(sessions')
             /\ last'.response = Reply("confirm_order", Cart(sessions))
       /\ (/\ MessageStep /\ last'.text = "yes"
           /\ Stage(sessions) = "awaiting_yes" /\ Cart(sessions) # <<>>)
          => /\ GroceryTurn
             /\ Stage(sessions') = "awaiting_final"
             /\ Cart(sessions') = Cart(sessions)
             /\ last'.response = Reply("are_you_sure", <<>>)
       /\ (/\ MessageStep /\ last'.text = "yes"
           /\ Stage(sessions) = "awaiting_final" /\ Cart(sessions) # <<>>)
          => /\ GroceryTurn
             /\ Stage(sessions') = "completed"
             /\ Cart(sessions') = <<>>
             /\ ~Awaiting(sessions')
             /\ last'.response = Reply("order_placed", <<>>)]_vars

\* the fourth turn of a session placed the order
C3_Witness ==
    /\ last.request = "message" /\ last.text = "yes"
    /\ last.response.kind = "order_placed"
    /\ Stage(sessions) = "completed"
    /\ Len(last.conversation_history) = 8

\* C4 (amended): the stored cart is non-empty only while
\* awaiting_confirmation is true, that is with the cart built (stage
\* initial), in awaiting_yes or in awaiting_final.
C4_CartOnlyWhileAwaiting ==
    Cart(sessions) # <<>>
        => /\ Awaiting(sessions)
           /\ Stage(sessions) \in {"initial", "awaiting_yes", "awaiting_final"}

\* a built cart is stored with stage initial
C4_Witness == CartBuilt(sessions) /\ last.response.kind = "found_items"

\* C4 as stated: the stored cart is non-empty only in awaiting_yes or
\* awaiting_final.
C4_Original ==
    Cart(sessions) # <<>> => Stage(sessions) \in {"awaiting_yes", "awaiting_final"}

\* C5: in completed or cancelled, a grocery turn that is only a confirmation
\* or cancellation token changes neither the stage nor the cart.
C5_TerminalStagesStay ==
    [][(/\ GroceryTurn
        /\ Stage(sessions) \in {"completed", "cancelled"}
        /\ last'.text \in BareTokenTexts)
         => /\ Stage(sessions') = Stage(sessions)
            /\ Cart(sessions') = Cart(sessions)]_vars

\* C6: with no confirmation pending, a grocery turn that is only a
\* confirmation token leaves cart, stage and awaiting_confirmation as they
\* were.
C6_BareConfirmationIgnored ==
    [][(/\ GroceryTurn
        /\ ~Awaiting(sessions)
        /\ Stage(sessions) \notin {"awaiting_yes", "awaiting_final"}
        /\ last'.text \in ConfirmationTokenTexts)
         => /\ Cart(sessions') = Cart(sessions)
            /\ Stage(sessions') = Stage(sessions)
            /\ Awaiting(sessions') = Awaiting(sessions)]_vars

\* C7: the label a turn returns is one of the four agent names or the
\* error signal, and so is the current agent the session stores.
C7_ClosedLabelSet ==
    (last.request = "message" /\ last.status = 200)
        => /\ last.agent_name \in Range(ValidAgents) \cup {"error"}
           /\ CurrentAgent(sessions) \in Range(ValidAgents) \cup {"error", "None"}

\* C8: a turn whose classification raised or named no valid agent is still
\* handled by one of the four agents, not answered by the router.
C8_FallbackDispatch ==
    (last.request = "message" /\ last.classifier \in {"raised", "none"})
        => /\ last.agent_name \in Range(ValidAgents)
           /\ last.response \notin {HelpText, Msg("Error", <<>>, 0, <<>>)}

C10_EveryTurnReplies ==
    last.request = "message" => (last.status = 200 /\ last.response # NoReply)

(***************************************************************************)
(* Observations of the email agent                                         *)
(***************************************************************************)
\* the step is a turn the email agent handled and returned from
EmailTurn ==
    /\ MessageStep
    /\ last'.status = 200
    /\ last'.agent_name = "email_agent"

\* the GoogleAPIClient methods of calls, in call order
Ops(calls) == [i \in 1..Len(calls) |-> calls[i].op]

\* the calls of calls to the method op
CallsOf(calls, op) == SelectSeq(calls, LAMBDA c : c.op = op)

\* the methods that change the mailbox or the calendar
mutating_ops == {"send_email", "create_calendar_event", "mark_as_read"}

DraftPending(agent) == Truthy(agent.draft_ready)

MeetingPending(agent) == agent.meeting_ready # None

\* C11: the turns of a session depend on that session alone: the first turn
\* of a session, a "yes", finds nothing to confirm and makes no
\* GoogleAPIClient call, whatever another session did before.
C11_SessionsIndependent ==
    [][(MessageStep /\ last'.session_id = "s2" /\ "s2" \notin DOMAIN sessions)
         => (/\ last'.response.kind = "nothing_to_confirm"
             /\ google_calls' = <<>>)]_vars

\* the texts that are a bare confirmation token of the email agent
ConfirmTexts == {t \in AllTexts : UserLowerIs[t] \cap confirm_tokens # {}}

\* the step is a POST /message the email agent got
EmailStep == MessageStep /\ last'.agent_name = "email_agent"

\* C12: a "yes" with a draft pending makes exactly one send_email call, with
\* the pending draft as its body, and leaves no draft pending; a "yes" with
\* nothing pending makes no GoogleAPIClient call and answers that there is
\* nothing to confirm.
C12_ReplyRoundTrip ==
    [][(EmailStep /\ last'.text \in ConfirmTexts)
         => /\ DraftPending(email_agent)
                => /\ last'.status = 200
                   /\ Len(CallsOf(google_calls', "send_email")) = 1
                   /\ CallsOf(google_calls', "send_email")[1].args[3]
                        = email_agent.draft_ready[1]
                   /\ ~DraftPending(email_agent')
            /\ (~DraftPending(email_agent) /\ ~MeetingPending(email_agent))
                => /\ google_calls' = <<>>
                   /\ last'.response.kind = "nothing_to_confirm"]_vars

\* the draft of the selected email was sent on a "yes"
C12_Witness ==
    /\ last.text = "yes"
    /\ last.response.kind = "reply_sent"
    /\ Len(CallsOf(google_calls, "send_email")) = 1
    /\ CallsOf(google_calls, "send_email")[1].args[3] = "Dear sender"
    /\ ~DraftPending(email_agent)

\* C13: the email agent never holds a pending draft and a pending meeting at
\* the same time.
C13_OnePendingAction ==
    ~(DraftPending(email_agent) /\ MeetingPending(email_agent))

\* C14: a successful selection of an email leaves no draft and no meeting of
\* an earlier email pending.
C14_SelectionClearsPending ==
    [][(EmailTurn /\ last'.response.kind = "email_selected")
         => (~DraftPending(email_agent') /\ ~MeetingPending(email_agent'))]_vars

\* C15: a confirmation token with a meeting pending and no draft pending
\* makes one create_calendar_event call for the pending meeting and leaves
\* no meeting pending.
C15_MeetingConfirmed ==
    [][(/\ EmailStep
        /\ last'.text \in ConfirmTexts
        /\ MeetingPending(email_agent)
        /\ ~DraftPending(email_agent))
         => /\ last'.status = 200
            /\ Len(CallsOf(google_calls', "create_calendar_event")) = 1
            /\ CallsOf(google_calls', "create_calendar_event")[1].args[1]
                 = email_agent.meeting_ready[1].topic
            /\ ~MeetingPending(email_agent')]_vars

\* the texts that are a bare cancellation token of the email agent
CancelTexts == {t \in AllTexts : UserLowerIs[t] \cap cancel_tokens # {}}

\* C16: a cancellation token leaves no draft and no meeting pending, makes
\* no GoogleAPIClient call and leaves the selected email and the cached
\* list as they were.
C16_CancelFrame ==
    [][(EmailStep /\ last'.text \in CancelTexts)
         => /\ last'.status = 200
            /\ ~DraftPending(email_agent')
            /\ ~MeetingPending(email_agent')
            /\ google_calls' = <<>>
            /\ email_agent'.current_email = email_agent.current_email
            /\ email_agent'.cached_emails = email_agent.cached_emails]_vars

\* a "no" was answered while an email of the cached list is selected
C16_Witness ==
    /\ last.text = "no"
    /\ last.response.kind = "cancelled"
    /\ email_agent.current_email = Some(Message2)
    /\ email_agent.cached_emails = <<Message1, Message2>>
    /\ ~DraftPending(email_agent)
    /\ ~MeetingPending(email_agent)

\* the step is a turn that takes the selection branch of the email agent
SelectStep == EmailStep /\ Command[last'.text] = "select"

\* the 1-based position is outside the list
OutOfRange(position, emails) == position = 0 \/ position > Len(emails)

\* the selected email and the pending actions are as before the step
SelectionUnchanged ==
    /\ email_agent'.current_email = email_agent.current_email
    /\ email_agent'.draft_ready = email_agent.draft_ready
    /\ email_agent'.meeting_ready = email_agent.meeting_ready

\* C17: a selection whose position is outside the list it is made from, the
\* cached list or, when nothing is cached, the unread emails fetched at that
\* turn, is answered with the out-of-range message, or with the selection
\* error message when that fetch raised, and leaves the selected email and
\* the pending actions as they were.
C17_OutOfRangeSelection ==
    [][(/\ SelectStep
        /\ OutOfRange(SelectedNumber[last'.text], email_agent'.cached_emails))
         => /\ last'.status = 200
            /\ IF last'.response.kind = "error_selecting_email"
               THEN /\ email_agent.cached_emails = <<>>
                    /\ Ops(google_calls') = <<"get_unread_emails">>
               ELSE last'.response.kind = "invalid_selection"
            /\ SelectionUnchanged]_vars

\* position 3 of a cached list of two was refused and the selected email kept
C17_Witness ==
    /\ last.text = "3"
    /\ last.response.kind = "invalid_selection"
    /\ email_agent.cached_emails = <<Message1, Message2>>
    /\ email_agent.current_email = Some(Message1)

\* C17 as stated: a selection whose position is 0 or greater than the length
\* of the cached list is answered with the out-of-range message and leaves
\* the selected email and the pending actions as they were.
C17_Original ==
    [][(/\ SelectStep
        /\ OutOfRange(SelectedNumber[last'.text], email_agent.cached_emails))
         => /\ last'.response.kind = "invalid_selection"
            /\ SelectionUnchanged]_vars

\* C18: a selection that repeats the position of the successful selection
\* just before it returns the same email and leaves the email agent as the first selection
\* left it, whatever the mailbox holds by then.
C18_SelectionIdempotent ==
    [][(/\ SelectStep
        /\ last.request = "message"
        /\ last.agent_name = "email_agent"
        /\ last.response.kind = "email_selected"
        /\ SelectedNumber[last'.text] = SelectedNumber[last.text])
         => /\ last'.status = 200
            /\ last'.response = last.response
            /\ email_agent' = email_agent]_vars

\* the second email was selected from the cached list without a fetch, in a
\* session that took an earlier turn
C18_Witness ==
    /\ last.text = "select 2"
    /\ last.response = EmailMsg("email_selected", <<Message2>>)
    /\ google_calls = <<>>
    /\ email_agent.current_email = Some(Message2)
    /\ Len(last.conversation_history) >= 4

\* the texts that run the pipeline: an analysis or a draft request
PipelineTexts == {t \in AllTexts : Command[t] \in {"analyze", "draft"}}

\* C19: an analysis or a draft request, which run the pipeline with
\* send_reply and create_event off, makes no send_email, no
\* create_calendar_event and no mark_as_read call.
C19_FlagsGateSideEffects ==
    [][(EmailTurn /\ last'.text \in PipelineTexts)
         => \A i \in 1..Len(google_calls') :
               google_calls'[i].op \notin mutating_ops]_vars

(***************************************************************************)
(* Observations of the news agent                                          *)
(***************************************************************************)
NewsContext(store) ==
    IF "s1" \in DOMAIN store THEN store["s1"].news_context ELSE EmptyDict

\* the ordinal K that a follow-up text names, 0 when it names none
NamedOrdinal(t) ==
    CASE t = "tell me about the second one" -> 2
      [] t = "tell me more about the third" -> 3
      [] t = "more about number 2" -> 2
      [] OTHER -> 0

Min(a, b) == IF a < b THEN a ELSE b

\* the step is a follow-up turn of the news agent that names an ordinal
\* within the cached results of the last search type
OrdinalFollowUp ==
    /\ MessageStep
    /\ last'.agent_name = "news_agent"
    /\ _check_for_follow_up(last'.text, NewsContext(sessions))
    /\ NamedOrdinal(last'.text) >= 1
    /\ NamedOrdinal(last'.text)
         <= Min(Len(StoredItems(NewsContext(sessions))), 5)

\* C20: a follow-up that names ordinal K, 1 <= K <= min(N, 5), of the N
\* cached results of the last search type is answered with the detail view
\* of cached item K-1 and of no other item.
C20_OrdinalResolved ==
    [][OrdinalFollowUp
         => /\ last'.status = 200
            /\ last'.response
                 = Msg("item_detail", <<>>, NamedOrdinal(last'.text),
                       <<StoredItems(NewsContext(sessions))
                           [NamedOrdinal(last'.text)]>>)]_vars

\* the step is a follow-up turn of the news agent that names an ordinal
\* beyond the cached results of the last search type
OrdinalBeyondFollowUp ==
    /\ MessageStep
    /\ last'.agent_name = "news_agent"
    /\ _check_for_follow_up(last'.text, NewsContext(sessions))
    /\ NamedOrdinal(last'.text) > Len(StoredItems(NewsContext(sessions)))

\* C21: a follow-up that names an ordinal K greater than the number of cached
\* results is answered without a crash by a reply of its own: neither the
\* detail view of an item nor the overview given when no ordinal is named.
C21_OrdinalBeyondNotFound ==
    [][OrdinalBeyondFollowUp
         => /\ last'.status = 200
            /\ last'.response.kind \notin {"item_detail", "overview"}]_vars

search_types ==
    {"news", "research", "places", "shopping", "images", "videos", "web"}

\* the replies of a successful search
found_kinds == {"found_" \o t : t \in search_types}

\* the step is a turn the news agent handled and returned from
NewsTurn ==
    /\ MessageStep
    /\ last'.status = 200
    /\ last'.agent_name = "news_agent"

\* the news context after the step describes the search the step made
DescribesSearch(context) ==
    /\ "found_" \o Get(context, "last_search_type", "") = last'.response.kind
    /\ Get(context, "last_query", "") = last'.text
    /\ Len(StoredItems(context)) = last'.response.total
    /\ Take(StoredItems(context), 5) = last'.response.results

\* the reply of the step is read from the list last_search_type designates
ReadsDesignatedList(context) ==
    /\ last'.response.kind = "item_detail"
         => last'.response.results
              = <<StoredItems(context)[last'.response.total]>>
    /\ last'.response.kind = "overview"
         => /\ last'.response.results = Take(StoredItems(context), 5)
            /\ last'.response.total = Len(StoredItems(context))

\* C22: after a successful search last_search_type, last_query and the list
\* last_search_type designates are those of that search; every other turn
\* of the news agent leaves the news context alone, and a follow-up's item
\* detail or overview is read from the designated list.
C22_FollowUpReadsLastSearch ==
    [][NewsTurn
         => IF last'.response.kind \in found_kinds
            THEN DescribesSearch(NewsContext(sessions'))
            ELSE /\ NewsContext(sessions') = NewsContext(sessions)
                 /\ ReadsDesignatedList(NewsContext(sessions))]_vars

\* a follow-up was answered from the papers of the last search while the
\* articles of an older search are still stored
C22_Witness ==
    /\ last.response.kind \in {"item_detail", "overview"}
    /\ Get(NewsContext(sessions), "last_search_type", "") = "research"
    /\ Get(NewsContext(sessions), "current_papers", <<>>) = <<"r1">>
    /\ Get(NewsContext(sessions), "current_articles", <<>>) = <<"r1", "r2", "r3">>
    /\ last.response.results = <<"r1">>

(***************************************************************************)
(* Observations of the session store                                       *)
(***************************************************************************)
Present(store) == "s1" \in DOMAIN store

\* the first turn of an absent session started from a fresh session: the
\* history holds this turn only, the classifier was asked, and a context
\* the turn's agent does not write is empty
StartedFresh ==
    /\ Len(sessions'["s1"].history) = (IF last'.status = 200 THEN 2 ELSE 0)
    /\ last'.classifier # "not_called"
    /\ last'.status = 500 => sessions'["s1"] = NewSession
    /\ last'.agent_name # "grocery_agent"
         => sessions'["s1"].grocery_context = EmptyDict
    /\ last'.agent_name # "news_agent"
         => sessions'["s1"].news_context = EmptyDict

\* C23: a session is in the store exactly from a turn for its id until the
\* next clear of that id; GET /session never creates it and answers 404 when
\* it is absent; clearing an absent id answers 404 and changes nothing; the
\* first turn after a clear starts from a fresh session.
C23_SessionLifecycle ==
    [][/\ MessageStep
          => /\ Present(sessions')
             /\ ~Present(sessions) => StartedFresh
       /\ last'.request = "get"
          => /\ sessions' = sessions
             /\ last'.status = (IF Present(sessions) THEN 200 ELSE 404)
       /\ last'.request = "clear"
          => /\ ~Present(sessions')
             /\ last'.status = (IF Present(sessions) THEN 200 ELSE 404)
             /\ ~Present(sessions) => sessions' = sessions]_vars

\* a session that took a turn was cleared
C23_Witness ==
    /\ last.request = "clear"
    /\ last.status = 200
    /\ ~Present(sessions)

\* C24: a confirmation sends the pending draft to the sender and the thread
\* of the email the draft was requested for, and schedules a pending meeting
\* with that sender as attendee, whatever email was selected in between.
C24_DraftGoesToItsSender ==
    [][(EmailStep /\ last'.text \in ConfirmTexts)
         => /\ \A i \in 1..Len(google_calls') :
                 google_calls'[i].op = "send_email"
                   => /\ google_calls'[i].args[1] = drafted_from[1].sender
                      /\ google_calls'[i].args[4] = drafted_from[1].thread_id
            /\ \A i \in 1..Len(google_calls') :
                 google_calls'[i].op = "create_calendar_event"
                   => google_calls'[i].args[2] = drafted_from[1].sender]_vars

\* the step is a grocery turn that ends in completed with the reply that the
\* order has been placed
OrderPlaced ==
    /\ GroceryTurn
    /\ Stage(sessions') = "completed"
    /\ last'.response.kind = "order_placed"

\* C25: every turn that places an order starts with a non-empty cart.
C25_NoEmptyOrder ==
    [][OrderPlaced => Cart(sessions) # <<>>]_vars

\* the texts _understand_node always takes for an item request: they hold
\* no yes word, no cancel word and no "confirm", "clear" or "reset"
ItemRequestTexts ==
    {t \in Texts :
        ~AnyInLowerStripped(yes_words \cup no_words \cup {"confirm", "clear", "reset"}, t)}

\* C26: a grocery turn enters completed only from awaiting_final,
\* awaiting_final only from awaiting_yes and awaiting_yes only with
\* awaiting_confirmation true, and an item request made in awaiting_yes or
\* awaiting_final starts the confirmations over: it ends in stage initial.
C26_ThreeConfirmingTurns ==
    [][GroceryTurn
         => /\ (Stage(sessions') = "completed" /\ Stage(sessions) # "completed")
                => Stage(sessions) = "awaiting_final"
            /\ (Stage(sessions') = "awaiting_final"
                  /\ Stage(sessions) # "awaiting_final")
                => Stage(sessions) = "awaiting_yes"
            /\ (Stage(sessions') = "awaiting_yes" /\ Stage(sessions) # "awaiting_yes")
                => Awaiting(sessions)
            /\ (last'.text \in ItemRequestTexts
                  /\ Stage(sessions) \in {"awaiting_yes", "awaiting_final"})
                => Stage(sessions') = "initial"]_vars

\* C27: a grocery context that awaits a confirmation has a non-empty cart.
C27_AwaitingHasCart ==
    (Awaiting(sessions) \/ Stage(sessions) \in {"awaiting_yes", "awaiting_final"})
        => Cart(sessions) # <<>>

\* the session is locked to the grocery agent: grocery is its current agent
\* and a confirmation is in progress
Locked(store) == CurrentAgent(store) = "grocery_agent" /\ InProgress(store)

\* the context is in a stage that ends the order
Ended(store) == Stage(store) \in {"completed", "cancelled"}

\* C28: a turn that builds a cart locks the session to the grocery agent;
\* every turn of a locked session goes to the grocery agent without the
\* classifier being asked and either keeps the lock or ends in completed or
\* cancelled with the current agent set to none; the turn after that is
\* classified.
C28_GroceryLock ==
    [][MessageStep
         => /\ (GroceryTurn /\ CartBuilt(sessions')) => Locked(sessions')
            /\ Locked(sessions)
                => /\ GroceryTurn
                   /\ last'.classifier = "not_called"
                   /\ IF Ended(sessions')
                      THEN CurrentAgent(sessions') = "None"
                      ELSE Locked(sessions')
            /\ (Ended(sessions) /\ CurrentAgent(sessions) = "None")
                => last'.classifier # "not_called"]_vars

\* an item request was kept with the grocery agent by the lock
C28_Witness ==
    /\ last.text = "add milk"
    /\ last.classifier = "not_called"
    /\ last.agent_name = "grocery_agent"
    /\ Stage(sessions) = "awaiting_yes"
    /\ Locked(sessions)

\* C29: whenever the email agent holds a pending draft or a pending meeting,
\* an email is selected.
C29_PendingHasSelection ==
    (DraftPending(email_agent) \/ MeetingPending(email_agent))
        => email_agent.current_email # None

\* C30: a confirmation with a draft pending leaves no draft pending; when the
\* send succeeded the selected email, the one the reply is sent to, is marked
\* read and the selection is cleared; when it failed the selection is kept and mark_as_read is not
\* called.
C30_ConfirmOutcome ==
    [][(EmailStep /\ last'.text \in ConfirmTexts /\ DraftPending(email_agent))
         => /\ last'.status = 200
            /\ ~DraftPending(email_agent')
            /\ IF last'.response.kind = "reply_sent"
               THEN /\ CallsOf(google_calls', "mark_as_read")
                         = <<Call("mark_as_read",
                                  <<email_agent.current_email[1].id>>)>>
                    /\ email_agent'.current_email = None
               ELSE /\ last'.response.kind = "failed_to_send"
                    /\ CallsOf(google_calls', "mark_as_read") = <<>>
                    /\ email_agent'.current_email = email_agent.current_email]_vars

\* a send failed: the draft is gone, the email is still selected and only
\* send_email was called
C30_Witness ==
    /\ last.text = "yes"
    /\ last.response.kind = "failed_to_send"
    /\ Ops(google_calls) = <<"send_email">>
    /\ email_agent.current_email = Some(Message1)
    /\ ~DraftPending(email_agent)

\* C31: when an audio turn that was suspended holding a session with history
\* finishes after the session was cleared, the store afterwards holds no
\* session of that id with the history from before the clear: at most the
\* two entries of the finishing turn.
C31_ClearNotUndone ==
    [][(/\ audio_turn # None
        /\ audio_turn' = None
        /\ audio_turn[1].session.history # <<>>
        /\ audio_turn[1].session_id \notin DOMAIN sessions)
         => \/ audio_turn[1].session_id \notin DOMAIN sessions'
            \/ Len(sessions'[audio_turn[1].session_id].history) <= 2]_vars

\* the step is a turn the news agent's router takes for a follow-up
FollowUpTurn ==
    /\ MessageStep
    /\ last'.agent_name = "news_agent"
    /\ _check_for_follow_up(last'.text, NewsContext(sessions))

\* C32: a follow-up turn is answered with an item detail, an overview or the
\* no-previous-results reply and leaves the news context (last_search_type,
\* last_query and every cached list) as it was, so that the same follow-up
\* asked again on the context it left gets the same reply.
C32_FollowUpReadOnly ==
    [][FollowUpTurn
         => /\ last'.status = 200
            /\ last'.response.kind
                 \in {"item_detail", "overview", "no_previous_results"}
            /\ NewsContext(sessions') = NewsContext(sessions)
            /\ _deepdive_agent(last'.text, NewsContext(sessions'))[1]
                 = last'.response]_vars

\* a follow-up was answered from a context whose last search had found
\* nothing while an earlier search of another type had
C32_Witness ==
    /\ last.request = "message"
    /\ last.agent_name = "news_agent"
    /\ last.response.kind = "no_previous_results"
    /\ Get(NewsContext(sessions), "last_query", "") # ""

\* the replies of a search whose provider query failed
failed_kinds == {"no_" \o t : t \in search_types}

\* the nodes of the graph that query the provider
search_agents == RouterEdges \ {"deepdive_agent"}

\* the provider fails every query
EnvFailing == [EnvNews EXCEPT !.serper = {r \in @ : ~r.success}]

\* the step is a search turn of the news agent whose provider query failed
FailedSearchTurn ==
    /\ MessageStep
    /\ last'.agent_name = "news_agent"
    /\ ~_check_for_follow_up(last'.text, NewsContext(sessions))
    /\ last'.response.kind \in failed_kinds

\* C33: on every context a session reaches, each search handler whose
\* provider query fails gives its could-not-fetch reply and returns the
\* context as it got it; the turn of a failed search is answered and leaves
\* last_search_type, last_query and every cached list unchanged, so that a
\* follow-up reads the same results after it as before it.
C33_FailedSearchKeepsContext ==
    [][/\ \A agent \in search_agents, t \in NewsTexts :
            \A out \in NewsNode(agent, t, NewsContext(sessions), EnvFailing) :
               /\ out[1].kind \in failed_kinds
               /\ out[2] = NewsContext(sessions)
       /\ FailedSearchTurn
            => /\ last'.status = 200
               /\ NewsContext(sessions') = NewsContext(sessions)
               /\ StoredItems(NewsContext(sessions'))
                    = StoredItems(NewsContext(sessions))]_vars

\* a search failed in a session that holds the results of an earlier one
C33_Witness ==
    /\ last.request = "message"
    /\ last.agent_name = "news_agent"
    /\ last.response.kind \in failed_kinds
    /\ StoredItems(NewsContext(sessions)) # <<>>

\* the step is the reason node of a graph run choosing the cart
Reasoned ==
    /\ agent_state # None
    /\ agent_state[1].node = "reason"
    /\ agent_state'[1].node = "respond"

\* entry is the offer the claim names among candidates: the first of the
\* least price among the priced ones, or the first candidate when none is
\* priced
BestOf(candidates, entry) ==
    IF \E j \in 1..Len(candidates) : candidates[j].price # NoPrice
    THEN \E i \in 1..Len(candidates) :
            /\ candidates[i] = entry
            /\ entry.price # NoPrice
            /\ \A j \in 1..Len(candidates) :
                  candidates[j].price # NoPrice
                    => /\ entry.price <= candidates[j].price
                       /\ candidates[j].price = entry.price => i <= j
    ELSE entry = candidates[1]

\* C34: the reason node builds the cart with one entry for each item that
\* has candidates, in the order of the items, and the entry of an item is
\* the first least-priced offer among that item's priced candidates, or the
\* item's first candidate when none of them is priced.
C34_CheapestPerItem ==
    [][Reasoned
         => LET by_item == agent_state[1].state.search_results_by_item
                cart == agent_state'[1].state.cart
            IN  /\ Len(cart) = Len(by_item)
                /\ \A k \in 1..Len(by_item) :
                      /\ by_item[k][2] # <<>>
                      /\ BestOf(by_item[k][2], cart[k])]_vars

\* a cart of two items was chosen, one from unpriced candidates only and one
\* from candidates of which two share the least price
C34_Witness ==
    /\ agent_state # None
    /\ agent_state[1].node = "respond"
    /\ agent_state[1].state.cart = <<UnpricedD, ProductA>>

\* the step is the search node of a graph run looking the items up
Searched ==
    /\ agent_state # None
    /\ agent_state[1].node = "search"
    /\ agent_state'[1].node = "reason"

\* the distinct names of a list of extracted items
Distinct(items) == {items[i] : i \in 1..Len(items)}

\* C35: for every list of extracted names, the search node keeps the
\* candidates under pairwise distinct names of the list, whatever names are
\* repeated and whatever searches fail, and the reason node builds the cart
\* with one entry for each of them, each taken from that name's candidates:
\* at most one entry per distinct extracted item and none kept from the cart
\* the session had before the request.
C35_OneEntryPerItem ==
    [][/\ Searched
          => LET items == agent_state[1].state.items_to_search
                 by_item == agent_state'[1].state.search_results_by_item
             IN  /\ \A k \in 1..Len(by_item) : by_item[k][1] \in Distinct(items)
                 /\ \A j, k \in 1..Len(by_item) :
                       by_item[j][1] = by_item[k][1] => j = k
       /\ Reasoned
          => LET items == agent_state[1].state.items_to_search
                 by_item == agent_state[1].state.search_results_by_item
                 cart == agent_state'[1].state.cart
             IN  /\ Len(cart) = Len(by_item)
                 /\ Len(cart) <= Cardinality(Distinct(items))
                 /\ \A k \in 1..Len(cart) :
                       \E i \in 1..Len(by_item[k][2]) : cart[k] = by_item[k][2][i]]_vars

\* a request for a repeated name and a name whose search failed, made in a
\* session that had a cart, built a cart of one entry
C35_Witness ==
    /\ agent_state # None
    /\ agent_state[1].node = "respond"
    /\ agent_state[1].session_cart = <<ProductB>>
    /\ agent_state[1].state.items_to_search
         = <<Chars("tomatoes"), NonStringItem, Chars("tomatoes")>>
    /\ Len(agent_state[1].state.cart) = 1

\* the history stored for the session, empty when the store has none
History(store) == IF Present(store) THEN store["s1"].history ELSE <<>>

\* C36: the history of a session is a user entry and an assistant entry for
\* each of its turns that got a reply, in turn order; a turn that gets a
\* reply, a routing error included, appends its two entries behind the
\* earlier ones, which stay as they were, and its response carries the last
\* ten entries of the history, or all of them when there are fewer; a turn
\* that raises leaves the history as it was.
C36_HistoryGrowsByTwo ==
    [][/\ \A i \in 1..Len(History(sessions)) :
            /\ History(sessions)[i].role
                 = (IF i % 2 = 1 THEN "You" ELSE "Assistant")
            /\ History(sessions)[i].turn = (i + 1) \div 2
       /\ MessageStep
            => LET before == History(sessions)
                   after == History(sessions')
                   n == Len(before) \div 2 + 1
               IN  IF last'.status = 200
                   THEN /\ Len(after) = 2 * n
                        /\ SubSeq(after, 1, Len(before)) = before
                        /\ after[2 * n - 1] = [role |-> "You", turn |-> n]
                        /\ after[2 * n] = [role |-> "Assistant", turn |-> n]
                        /\ Len(last'.conversation_history) = Min(10, 2 * n)
                        /\ \A i \in 1..Min(10, 2 * n) :
                              last'.conversation_history[i]
                                = after[2 * n - Min(10, 2 * n) + i]
                   ELSE after = before]_vars

\* the sixth turn of a session got a reply that carries ten of the twelve
\* entries of the history, after a turn that ended in a routing error
C36_Witness ==
    /\ last.request = "message"
    /\ last.status = 200
    /\ Len(History(sessions)) = 12
    /\ Len(last.conversation_history) = 10
    /\ last.conversation_history[1] = [role |-> "You", turn |-> 2]
    /\ last.agent_name = "error"

\* C37: a get_unread_emails call makes at most two list requests: the first
\* one and one more after a re-authentication.
C37_AtMostTwoAttempts ==
    unread_call # None => unread_call[1].attempts <= 2

\* C38: once the iteration counter of a weather graph run exceeds 10 the
\* run goes to END, also when the model's answer asks for tool calls.
C38_LoopEndsAfterTen ==
    (weather_state # None /\ weather_state[1].iteration > 10)
        => weather_state[1].node = "end"
====
